---- MODULE Spec2Model ----
(***************************************************************************)
(* State-machine model of the PickYourCourses conversation engine: the     *)
(* rate-limit gate (RateLimitService / RateLimitRepository), the session   *)
(* store (StateManager), the webhook router (WebhookHandler) and the vote  *)
(* repository.                                                             *)
(***************************************************************************)
EXTENDS Integers, Sequences, FiniteSets, TLC

(***************************************************************************)
(* Bounds of the model                                                     *)
(***************************************************************************)
\* configured limits (RateLimitConfig is a constructor parameter; the model
\* runs the gate with small configured limits)
DailyLimit == 2
TotalLimit == 3
\* last UTC day the clock reaches
MaxDay == 1

Users == {"u1", "u2"}
\* the gate keys every operation by userId; one user's counter is followed
GateUsers == {"u1"}
\* webhook invocations (Lambda instances) that may be in flight at once
Invs == {"a", "b"}

VARIABLES
  rateLimits,   \* rate-limit table: userId -> NoRec or the stored RateLimit item
  today,        \* current UTC day (new Date().toISOString().split('T')[0])
  inv,          \* the webhook invocations in flight
  resets,       \* the resetDailyCount calls in flight: the days they took
  states,       \* StateManager.states: userId -> NoSession or {state, data, lastActivity}
  now,          \* wall clock, in minutes
  ret,          \* the last call made and what it returned
  reviews,      \* reviews table: reviewId -> NoReview or the stored review
  votes,        \* votes table: voteId -> NoVote or the stored vote
  profiles,     \* users table: telegramId -> NoUser or the stored user
  editingReviews, \* ReviewEditHandler.editingReviews: userId -> NoDraft or the draft
  calls,        \* the repository calls in flight, between their awaits
  timers        \* TimeoutHandler: the timers set, its two maps, the callbacks made

gateVars == <<rateLimits, today, inv, resets>>
storeVars == <<states, now>>
dataVars == <<reviews, votes, profiles, editingReviews, calls, timers>>
vars == <<rateLimits, today, inv, resets, states, now, ret, reviews, votes, profiles, editingReviews,
          calls, timers>>

NoRec == [exists |-> FALSE]
NoSession == [present |-> FALSE]
Null == [null |-> TRUE]
Undefined == [undefined |-> TRUE]
NoCall == [op |-> "none"]
NoReview == [present |-> FALSE]
NoVote == [present |-> FALSE]
NoUser == [present |-> FALSE]
NoDraft == [present |-> FALSE]
NoCallInFlight == [pc |-> "idle"]

ReviewIds == {"r1", "r2", "r3"}
Courses == {"c1"}
ITEMS_PER_PAGE == 10
MaxCourses == 2 * ITEMS_PER_PAGE + 1
\* the id of the j-th course of the courses table
courseIdAt(j) == "c" \o ToString(j)
\* the courses table: MaxCourses courses, all of one category
Catalog == {courseIdAt(j) : j \in 1..MaxCourses}
\* those who may have voted: the users, and one more who does nothing else
Voters == Users \cup {"u3"}
VoteIds == Voters \X ReviewIds
Procs == {"p", "q"}

\* the parts of the program a run does not exercise, as construction leaves them
GateIdle ==
  /\ rateLimits = [u \in GateUsers |-> NoRec]
  /\ today = 0
  /\ resets = [u \in GateUsers |-> {}]
StoreIdle ==
  /\ states = [u \in Users |-> NoSession]
  /\ now = 0
\* TimeoutHandler after construction: no timer set, both maps empty; set is
\* the timers the runtime holds pending, fired and cancelled record the ids of
\* the timers that ran and of those clearTimeout was given
NoTimers ==
  [cancelled |-> {}, fired |-> {},
   nextId |-> 1, onTimeout |-> [u \in Users |-> 0],
   onWarning |-> [u \in Users |-> 0], running |-> {}, sessionTimeouts |-> [u \in Users |-> 0],
   set |-> {}, timeoutWarnings |-> [u \in Users |-> 0]]

DataIdle ==
  /\ reviews = [r \in ReviewIds |-> NoReview]
  /\ votes = [v \in VoteIds |-> NoVote]
  /\ profiles = [u \in Users |-> NoUser]
  /\ editingReviews = [u \in Users |-> NoDraft]
  /\ calls = [p \in Procs |-> NoCallInFlight]
  /\ timers = NoTimers
NoResult == [allowed |-> FALSE, dailyCount |-> 0, reason |-> "none", totalCount |-> 0]

(***************************************************************************)
(* RateLimitRepository                                                     *)
(***************************************************************************)
\* the item getOrCreate creates for a user that has none
newRateLimit(day) ==
  [exists |-> TRUE, dailyCount |-> 0, totalCount |-> 0, lastResetDate |-> day]

\* getOrCreate: the item returned (the existing one, or the new one)
getOrCreate(table, u, day) ==
  IF table[u].exists THEN table[u] ELSE newRateLimit(day)

\* getOrCreate: the table afterwards (create is conditional on absence)
getOrCreateTable(table, u, day) ==
  IF table[u].exists THEN table ELSE [table EXCEPT ![u] = newRateLimit(day)]

\* a count that is no number: the attribute is missing from the item
\* (undefined), or was computed from a missing one (NaN)
UndefinedNumber == -1
NaN == -2
\* a number with a fractional part: Half + n stands for n + 0.5, n >= 0
Half == 100
\* Number.isInteger
isInteger(x) == x \notin {NaN, UndefinedNumber} /\ x < Half
\* x >= k and x <= k for an integer k
atLeast(x, k) == IF x >= Half THEN x - Half >= k ELSE x >= k
atMost(x, k) == IF x >= Half THEN x - Half < k ELSE x <= k

\* count + 1 in JavaScript
addOne(count) == IF count < 0 THEN NaN ELSE count + 1

\* incrementCounts: the updates computed from the item read earlier
incrementUpdates(current, day) ==
  [exists |-> TRUE,
   dailyCount |-> IF current.lastResetDate # day THEN 1 ELSE addOne(current.dailyCount),
   totalCount |-> addOne(current.totalCount),
   lastResetDate |-> day]

\* resetDailyCount: SET dailyCount, lastResetDate on the stored item; the
\* update creates the item, with these attributes only, when it is absent
resetUpdates(stored, day) ==
  IF stored.exists THEN [stored EXCEPT !.dailyCount = 0, !.lastResetDate = day]
  ELSE [exists |-> TRUE, dailyCount |-> 0, totalCount |-> UndefinedNumber,
        lastResetDate |-> day]

(***************************************************************************)
(* RateLimitService                                                        *)
(***************************************************************************)
\* getNextMidnightUTC without the step to the next date
getNextMidnightUTCSameDate(day) == day

\* getNextMidnightUTC: 00:00:00.000 UTC of the date after the current one,
\* named by the day it begins
getNextMidnightUTC(day) == day + 1

checkRateLimitNoRollover(rateLimit, day) ==
  LET currentDailyCount == rateLimit.dailyCount
      currentTotalCount == rateLimit.totalCount
  IN  IF currentDailyCount >= DailyLimit
        THEN [allowed |-> FALSE, dailyCount |-> currentDailyCount,
              reason |-> "Daily", totalCount |-> currentTotalCount,
              resetTime |-> getNextMidnightUTC(day)]
      ELSE IF currentTotalCount >= TotalLimit
        THEN [allowed |-> FALSE, dailyCount |-> currentDailyCount,
              reason |-> "Total", totalCount |-> currentTotalCount]
      ELSE [allowed |-> TRUE, dailyCount |-> currentDailyCount,
              reason |-> "none", totalCount |-> currentTotalCount]

\* checkRateLimit on the item getOrCreate returned
checkRateLimit(rateLimit, day) ==
  LET needsReset == rateLimit.lastResetDate # day
      currentDailyCount == IF needsReset THEN 0 ELSE rateLimit.dailyCount
      currentTotalCount == rateLimit.totalCount
  IN  IF currentDailyCount >= DailyLimit
        THEN [allowed |-> FALSE, dailyCount |-> currentDailyCount,
              reason |-> "Daily", totalCount |-> currentTotalCount,
              resetTime |-> getNextMidnightUTC(day)]
      ELSE IF currentTotalCount >= TotalLimit
        THEN [allowed |-> FALSE, dailyCount |-> currentDailyCount,
              reason |-> "Total", totalCount |-> currentTotalCount]
      ELSE [allowed |-> TRUE, dailyCount |-> currentDailyCount,
              reason |-> "none", totalCount |-> currentTotalCount]

(***************************************************************************)
(* The record of one handleWebhook invocation                              *)
(***************************************************************************)
IdleInv ==
  [pc |-> "idle", call |-> "none", checkDay |-> 0, incDay |-> 0, item |-> NoRec,
   newDay |-> 0, recorded |-> FALSE, result |-> NoResult, routed |-> "none",
   update |-> [kind |-> "none"], user |-> "u1"]

\* the step that follows an allowed check in handleWebhook
afterAllowedSkipRecord == "process"

afterAllowed == "record"

GateInit ==
  /\ rateLimits = [u \in GateUsers |-> NoRec]
  /\ today = 0
  /\ resets = [u \in GateUsers |-> {}]
  /\ inv = [i \in Invs |-> IdleInv]
  /\ StoreIdle
  /\ DataIdle
  /\ ret = NoCall


(***************************************************************************)
(* StateManager                                                            *)
(***************************************************************************)
STATE_TIMEOUT_MINUTES == 30

ConversationState ==
  {"MAIN_MENU", "BROWSING_CATEGORIES", "VIEWING_COURSE", "POSTING_REVIEW",
   "COLLECTING_USER_INFO", "COLLECTING_NAME", "COLLECTING_PROMOTION",
   "VIEWING_MY_REVIEWS", "EDITING_REVIEW", "EDITING_REVIEW_TEXT",
   "REQUESTING_COURSE_EDIT", "COLLECTING_COURSE_EDIT_TEXT"}


\* the entry setState stores: data || null, lastActivity: new Date()
sessionEntry(state, data, t) ==
  [present |-> TRUE, state |-> state,
   data |-> IF data = Undefined THEN Null ELSE data,
   lastActivity |-> t]

\* setState: this.states.set(userId, {...})
setState(map, u, state, data, t) ==
  [map EXCEPT ![u] = sessionEntry(state, data, t)]

\* getState: now > lastActivity + STATE_TIMEOUT_MINUTES * 60 * 1000
sessionExpired(entry, t) ==
  t > entry.lastActivity + STATE_TIMEOUT_MINUTES

\* getState: the value returned
getStateValue(map, u, t) ==
  IF ~map[u].present THEN Null
  ELSE IF sessionExpired(map[u], t) THEN Null
  ELSE [state |-> map[u].state, data |-> map[u].data]

\* getState: the map afterwards (an expired entry is deleted)
getStateMapKeepExpired(map, u, t) == map

getStateMap(map, u, t) ==
  IF map[u].present /\ sessionExpired(map[u], t)
    THEN [map EXCEPT ![u] = NoSession]
    ELSE map

\* clearState
clearState(map, u) == [map EXCEPT ![u] = NoSession]

\* renewSession: lastActivity = new Date() when an entry is stored
renewSession(map, u, t) ==
  IF map[u].present THEN [map EXCEPT ![u].lastActivity = t] ELSE map

\* cleanupExpiredStates
cleanupExpiredStates(map, t) ==
  [u \in DOMAIN map |->
     IF map[u].present /\ sessionExpired(map[u], t) THEN NoSession ELSE map[u]]

validTransitions(from) ==
  CASE from = "MAIN_MENU" ->
         {"BROWSING_CATEGORIES", "POSTING_REVIEW", "VIEWING_MY_REVIEWS"}
    [] from = "BROWSING_CATEGORIES" -> {"MAIN_MENU", "VIEWING_COURSE"}
    [] from = "VIEWING_COURSE" ->
         {"BROWSING_CATEGORIES", "MAIN_MENU", "POSTING_REVIEW"}
    [] from = "POSTING_REVIEW" -> {"MAIN_MENU", "VIEWING_COURSE", "COLLECTING_NAME"}
    [] from = "COLLECTING_USER_INFO" -> {"MAIN_MENU", "COLLECTING_NAME"}
    [] from = "COLLECTING_NAME" -> {"MAIN_MENU", "COLLECTING_PROMOTION"}
    [] from = "COLLECTING_PROMOTION" -> {"MAIN_MENU", "POSTING_REVIEW"}
    [] from = "VIEWING_MY_REVIEWS" ->
         {"MAIN_MENU", "POSTING_REVIEW", "VIEWING_COURSE", "EDITING_REVIEW"}
    [] from = "EDITING_REVIEW" ->
         {"VIEWING_MY_REVIEWS", "MAIN_MENU", "EDITING_REVIEW_TEXT"}
    [] from = "EDITING_REVIEW_TEXT" ->
         {"EDITING_REVIEW", "VIEWING_MY_REVIEWS", "MAIN_MENU"}
    [] OTHER -> {}

isValidTransitionNoEscape(from, to) == to \in validTransitions(from)

isValidTransition(from, to) ==
  IF to = "MAIN_MENU" THEN TRUE ELSE to \in validTransitions(from)

(***************************************************************************)
(* The session store driven call by call                                   *)
(***************************************************************************)
\* bounds of the store runs
MaxTime == 47
TickSteps == {15, 16}
StoreStates == {"MAIN_MENU", "POSTING_REVIEW"}
StoreContexts == {Undefined, [step |-> "category_selection"], [reviewId |-> "r1"]}

StoreInit ==
  /\ states = [u \in Users |-> NoSession]
  /\ now = 0
  /\ ret = NoCall
  /\ GateIdle
  /\ inv = [i \in Invs |-> IdleInv]
  /\ DataIdle

SetStateCall(u, state, data) ==
  /\ states' = setState(states, u, state, data, now)
  /\ ret' = [op |-> "setState", user |-> u, state |-> state, data |-> data,
             afterExpired |-> (ret.op = "getState" /\ ret.user = u /\ ret.expired)]
  /\ UNCHANGED <<now, gateVars, dataVars>>

GetStateCall(u) ==
  /\ states' = getStateMap(states, u, now)
  /\ ret' = [op |-> "getState", user |-> u, expired |-> (states[u].present /\ sessionExpired(states[u], now)),
             value |-> getStateValue(states, u, now)]
  /\ UNCHANGED <<now, gateVars, dataVars>>

ClearStateCall(u) ==
  /\ states' = clearState(states, u)
  /\ ret' = [op |-> "clearState", user |-> u]
  /\ UNCHANGED <<now, gateVars, dataVars>>

RenewSessionCall(u) ==
  /\ states' = renewSession(states, u, now)
  /\ ret' = [op |-> "renewSession", user |-> u]
  /\ UNCHANGED <<now, gateVars, dataVars>>

CleanupCall ==
  /\ states' = cleanupExpiredStates(states, now)
  /\ ret' = [op |-> "cleanupExpiredStates"]
  /\ UNCHANGED <<now, gateVars, dataVars>>

Tick(d) ==
  /\ now + d <= MaxTime
  /\ now' = now + d
  /\ ret' = [op |-> "tick"]
  /\ UNCHANGED <<states, gateVars, dataVars>>

StoreNext ==
  \/ \E u \in Users, st \in StoreStates, d \in StoreContexts : SetStateCall(u, st, d)
  \/ \E u \in Users : GetStateCall(u)
  \/ \E u \in Users : ClearStateCall(u)
  \/ \E u \in Users : RenewSessionCall(u)
  \/ CleanupCall
  \/ \E d \in TickSteps : Tick(d)

SpecStore == StoreInit /\ [][StoreNext]_vars

(***************************************************************************)
(* isValidTransition applied to every pair of states                       *)
(***************************************************************************)
TransInit ==
  /\ \E f \in ConversationState, t \in ConversationState :
       ret = [op |-> "input", from |-> f, to |-> t]
  /\ StoreIdle
  /\ GateIdle
  /\ inv = [i \in Invs |-> IdleInv]
  /\ DataIdle

IsValidTransitionCall ==
  /\ ret.op = "input"
  /\ ret' = [op |-> "isValidTransition", from |-> ret.from, to |-> ret.to,
             value |-> isValidTransition(ret.from, ret.to)]
  /\ UNCHANGED <<storeVars, gateVars, dataVars>>

TransNext == IsValidTransitionCall

SpecTrans == TransInit /\ [][TransNext]_vars

(***************************************************************************)
(* WebhookHandler: the callback route list and first-match dispatch        *)
(*                                                                         *)
(* Callback data is held as the sequence of its "_"-separated segments     *)
(* ("course_details_c1" is <<"course", "details", "c1">>).  Every literal  *)
(* part of the registered patterns is a whole number of segments, so a     *)
(* pattern is a sequence of elements: a literal segment, a segment out of  *)
(* a set (\d+, [1-5], (up|down) ...), or (.+), which takes one or more     *)
(* segments making a non-empty string.                                     *)
(***************************************************************************)
L(w) == [v |-> {w}, any |-> FALSE]
S(set) == [v |-> set, any |-> FALSE]
A == [v |-> {}, any |-> TRUE]

DigitSegs == {"0", "1", "2", "3", "4", "5", "12"}
OneToFive == {"1", "2", "3", "4", "5"}

callbackRoutes ==
  <<
    [handler |-> "handleHelpCallback",
     pattern |-> <<L("help")>>],
    [handler |-> "handleMainMenuCallback",
     pattern |-> <<L("main"), L("menu")>>],
    [handler |-> "handleBrowseCategoriesCallback",
     pattern |-> <<L("browse"), L("categories")>>],
    [handler |-> "handlePostReviewCallback",
     pattern |-> <<L("post"), L("review")>>],
    [handler |-> "handleCategoryCallback",
     pattern |-> <<L("category"), A>>],
    [handler |-> "handleCourseCallback",
     pattern |-> <<L("course"), A>>],
    [handler |-> "handleBackCallback",
     pattern |-> <<L("back"), A>>],
    [handler |-> "handleReviewsPageCallback",
     pattern |-> <<L("reviews"), A, L("page"), S(DigitSegs)>>],
    [handler |-> "handleViewReviewsCallback",
     pattern |-> <<L("reviews"), A>>],
    [handler |-> "handleVoteCallback",
     pattern |-> <<L("vote"), A, S({"up", "down"})>>],
    [handler |-> "handleCourseDetailsCallback",
     pattern |-> <<L("course"), L("details"), A>>],
    [handler |-> "handleCoursesPageCallback",
     pattern |-> <<L("courses"), A, L("page"), S(DigitSegs)>>],
    [handler |-> "handleCategoriesPageCallback",
     pattern |-> <<L("categories"), L("page"), S(DigitSegs)>>],
    [handler |-> "handleReviewCategoryCallback",
     pattern |-> <<L("review"), L("category"), A>>],
    [handler |-> "handleReviewCourseCallback",
     pattern |-> <<L("review"), L("course"), A>>],
    [handler |-> "handleRatingCallback",
     pattern |-> <<L("rating"), A, S(DigitSegs)>>],
    [handler |-> "handleAnonymityCallback",
     pattern |-> <<L("review"), L("anonymous"), S({"yes", "no"})>>],
    [handler |-> "handleConfirmReviewCallback",
     pattern |-> <<L("confirm"), L("review")>>],
    [handler |-> "handleCancelReviewCallback",
     pattern |-> <<L("cancel"), L("review")>>],
    [handler |-> "handleEditReviewCallback",
     pattern |-> <<L("edit"), L("review"), A>>],
    [handler |-> "handleEditRatingCallback",
     pattern |-> <<L("edit"), L("rating"), A, S({"overall", "quality", "difficulty"})>>],
    [handler |-> "handleSetRatingCallback",
     pattern |-> <<L("set"), L("rating"), A, S({"overall", "quality", "difficulty"}), S(OneToFive)>>],
    [handler |-> "handleEditTextCallback",
     pattern |-> <<L("edit"), L("text"), A>>],
    [handler |-> "handleEditAnonymousCallback",
     pattern |-> <<L("edit"), L("anonymous"), A>>],
    [handler |-> "handleSaveReviewCallback",
     pattern |-> <<L("save"), L("review"), A>>],
    [handler |-> "handleCancelEditCallback",
     pattern |-> <<L("cancel"), L("edit"), A>>],
    [handler |-> "handleSkipTextReviewCallback",
     pattern |-> <<L("skip"), L("text"), L("review")>>],
    [handler |-> "handleAddTextReviewCallback",
     pattern |-> <<L("add"), L("text"), L("review")>>],
    [handler |-> "handleEditCurrentReviewCallback",
     pattern |-> <<L("edit"), L("current"), L("review")>>],
    [handler |-> "handleMyReviewsCallback",
     pattern |-> <<L("my"), L("reviews")>>],
    [handler |-> "handleMyReviewsCallback",
     pattern |-> <<L("my"), L("reviews"), L("page"), S(DigitSegs)>>],
    [handler |-> "handleManageReviewCallback",
     pattern |-> <<L("manage"), L("review"), A>>],
    [handler |-> "handleDeleteReviewCallback",
     pattern |-> <<L("delete"), L("review"), A>>],
    [handler |-> "handleConfirmDeleteReviewCallback",
     pattern |-> <<L("confirm"), L("delete"), A>>],
    [handler |-> "handleWriteReviewCallback",
     pattern |-> <<L("write"), L("review"), A>>],
    [handler |-> "handleEditAnonymityCallback",
     pattern |-> <<L("edit"), L("anonymity")>>],
    [handler |-> "handleEditReviewTextCallback",
     pattern |-> <<L("edit"), L("review"), L("text")>>],
    [handler |-> "handleRemoveReviewTextCallback",
     pattern |-> <<L("remove"), L("review"), L("text")>>]
  >>

\* String.prototype.match against an anchored pattern
RECURSIVE regexMatch(_, _)
regexMatch(pattern, data) ==
  IF pattern = <<>> THEN data = <<>>
  ELSE IF data = <<>> THEN FALSE
  ELSE IF Head(pattern).any
    THEN \E n \in 1..Len(data) :
           /\ SubSeq(data, 1, n) # <<"">>
           /\ regexMatch(Tail(pattern), SubSeq(data, n + 1, Len(data)))
    ELSE /\ Head(data) \in Head(pattern).v
         /\ regexMatch(Tail(pattern), Tail(data))

\* handleCallbackQuery: index of the first route whose pattern matches, 0 if none
firstMatch(data) ==
  LET hits == {i \in DOMAIN callbackRoutes : regexMatch(callbackRoutes[i].pattern, data)}
  IN IF hits = {} THEN 0 ELSE CHOOSE i \in hits : \A j \in hits : i <= j

routeHandler(data) ==
  IF firstMatch(data) = 0 THEN "sendUnknownCallbackMessage"
  ELSE callbackRoutes[firstMatch(data)].handler

\* callback data of the runs: every pattern filled in with these captures
AnyFills == {<<"c1">>, <<"details", "c1">>, <<"text">>, <<"r1", "page", "2">>, <<"">>}

RECURSIVE instancesOf(_)
instancesOf(pattern) ==
  IF pattern = <<>> THEN {<<>>}
  ELSE LET heads == IF Head(pattern).any THEN AnyFills
                    ELSE {<<w>> : w \in Head(pattern).v}
       IN {h \o r : h \in heads, r \in instancesOf(Tail(pattern))}

CallbackData ==
  UNION {instancesOf(callbackRoutes[i].pattern) : i \in DOMAIN callbackRoutes}
    \cup {<<"browse", "courses">>, <<"noop">>, <<>>}
(***************************************************************************)
(* Calls in flight                                                         *)
(*                                                                         *)
(* An async function runs without interruption from one await of the store *)
(* or of the Telegram API to the next; a call to the StateManager or to    *)
(* the drafts map has no await inside and is part of the run it is made in.*)
(* A call in flight is suspended at one operation of the store or the bot; *)
(* the operation takes effect when it is answered, and the call then runs  *)
(* up to the next one.                                                     *)
(*                                                                         *)
(* A call is kept as its job and the log of what its operations returned   *)
(* so far.  A step evaluates the code of the job from the start over the   *)
(* world w: an operation that is in the log returns what the log holds and *)
(* changes nothing; the first operation after the log is the one being     *)
(* answered; the next operation of the store or the bot suspends the call. *)
(***************************************************************************)
NoHold == [status |-> "none"]

World ==
  [n |-> 0, states |-> states, reviews |-> reviews,
   votes |-> votes, profiles |-> profiles,
   editingReviews |-> editingReviews, log |-> <<>>, mode |-> "run", released |-> FALSE, atomic |-> TRUE,
   at |-> "none", val |-> Null, thrown |-> "none", sent |-> <<>>,
   fails |-> FALSE, mid |-> TRUE, hold |-> NoHold, dropped |-> {},
   markup |-> {}, first |-> <<>>]

\* the call is running: it is not suspended and no error is on its way to a catch
Active(w) == w.mode = "run" /\ w.thrown = "none"

\* the code that follows an operation: K is what runs on the world v the
\* operation leaves
After(v, K(_)) == K(v)

\* throw new Error(message)
Throw(w, message) == IF Active(w) THEN [w EXCEPT !.thrown = message] ELSE w

\* an operation on the memory of the process (no await inside): val is what
\* it returns, after the world it leaves
Mem(w, val, after, dummy) ==
  IF ~Active(w) THEN [w EXCEPT !.val = dummy]
  ELSE IF w.n < Len(w.log) THEN [w EXCEPT !.val = w.log[w.n + 1], !.n = @ + 1]
  ELSE [after EXCEPT !.val = val, !.log = Append(w.log, val), !.n = w.n + 1]

\* an awaited operation of the store or of the bot
Ext(w, name, val, after, dummy) ==
  IF ~Active(w) THEN [w EXCEPT !.val = dummy]
  ELSE IF w.n < Len(w.log) THEN [w EXCEPT !.val = w.log[w.n + 1], !.n = @ + 1]
  ELSE IF w.released /\ ~w.atomic
    THEN [w EXCEPT !.mode = "suspended", !.at = name, !.val = dummy]
  ELSE [after EXCEPT !.val = val, !.log = Append(w.log, val), !.n = w.n + 1,
                     !.released = TRUE]

\* return value of a function made of several operations
Ret(w, val) == [w EXCEPT !.val = val]

(***************************************************************************)
(* TelegramBot                                                             *)
(***************************************************************************)
\* bot.sendMessage / bot.editMessageText: tag names the message
Send(w, method, tag) ==
      After(Ext(w, method, Null, w, Null), LAMBDA w1 :
     IF w1.n > w.n THEN [w1 EXCEPT !.sent = Append(@, tag)] ELSE w1)

\* if (messageId) bot.editMessageText(...) else bot.sendMessage(...)
Show(w, tag) == Send(w, IF w.mid THEN "editMessageText" ELSE "sendMessage", tag)

\* bot.answerCallbackQuery(id)
AnswerCallbackQuery(w) == Ext(w, "answerCallbackQuery", Null, w, Null)

\* WebhookHandler.sendErrorMessage
sendErrorMessage(w, tag) == Send(w, "sendMessage", tag)

\* catch (error) { sendErrorMessage(chatId, message) } around a handler body
catch(w, tag) ==
  IF w.mode = "run" /\ w.thrown # "none"
    THEN sendErrorMessage([w EXCEPT !.thrown = "none"], tag)
    ELSE w

\* the last message sent
lastOf(sent) == IF sent = <<>> THEN "" ELSE sent[Len(sent)]

(***************************************************************************)
(* AbstractRepository over the tables                                      *)
(***************************************************************************)
ReviewIdSeq == <<"r1", "r2", "r3">>
StoreError == "store error"
newUser == [present |-> TRUE, name |-> "", promotion |-> ""]

\* ReviewRepository.getReviewsByUser: the user's reviews with isDeleted = false
getReviewsByUser(w, u) ==
  {r \in ReviewIds : /\ w.reviews[r].present
                     /\ w.reviews[r].userId = u
                     /\ ~w.reviews[r].isDeleted}

\* ReviewRepository.getUserReviewForCourse: the ids found (empty for null)
getUserReviewForCourse(w, u, c) ==
  {r \in getReviewsByUser(w, u) : w.reviews[r].courseId = c}

\* the query of ReviewRepository.getReviewsForCourse
courseIndex(w, c) ==
  {r \in ReviewIds : /\ w.reviews[r].present
                     /\ w.reviews[r].courseId = c
                     /\ ~w.reviews[r].isDeleted}

\* VoteRepository.getVotesForReview
getVotesForReview(w, r) ==
  {v \in VoteIds : w.votes[v].present /\ w.votes[v].reviewId = r}

\* VoteRepository.getUserVote: the vote ids found (empty for null)
getUserVote(w, u, r) ==
  {v \in VoteIds : /\ w.votes[v].present
                   /\ w.votes[v].userId = u
                   /\ w.votes[v].reviewId = r}

\* ReviewRepository.generateReviewId: the first id no stored review has
generateReviewId(w) ==
  ReviewIdSeq[CHOOSE i \in DOMAIN ReviewIdSeq :
                /\ ~w.reviews[ReviewIdSeq[i]].present
                /\ \A j \in 1..(i - 1) : w.reviews[ReviewIdSeq[j]].present]

\* the items a query gave, as they were when it was answered
itemsOf(table, ids) == [x \in ids |-> table[x]]

StoreGetUser(w, u) == Ext(w, "get users", w.profiles[u], w, NoUser)

\* create: a put on the condition that no item has the key
StorePutUser(w, u) ==
      After(Ext(w, "put users", ~w.profiles[u].present,
                IF w.profiles[u].present THEN w ELSE [w EXCEPT !.profiles[u] = newUser],
                TRUE), LAMBDA w1 :
     IF w1.val THEN w1 ELSE Throw(w1, "Item already exists"))

\* update: an UpdateItem, which creates the item when the key is absent
StoreUpdateUser(w, u, profile) ==
  LET old == IF w.profiles[u].present THEN w.profiles[u] ELSE newUser
  IN Ext(w, "update users", Null,
         [w EXCEPT !.profiles[u] =
            [old EXCEPT !.name = IF profile.name # "" THEN profile.name ELSE @,
                        !.promotion = IF profile.promotion # "" THEN profile.promotion ELSE @]],
         Null)

StoreGetCourse(w, c) == Ext(w, "get courses", c \in Catalog, w, FALSE)

\* the update of a course is the one store call taken to fail at times
StoreUpdateCourse(w, c) ==
      After(Ext(w, "update courses", ~w.fails, w, TRUE), LAMBDA w1 :
     IF w1.val THEN w1 ELSE Throw(w1, StoreError))

StoreGetReview(w, r) ==
  Ext(w, "get reviews", IF r \in ReviewIds THEN w.reviews[r] ELSE NoReview, w, NoReview)

QueryUserIndex(w, u) ==
  Ext(w, "query reviews", itemsOf(w.reviews, getReviewsByUser(w, u)), w, <<>>)

QueryCourseIndex(w, c) ==
  Ext(w, "query reviews", itemsOf(w.reviews, courseIndex(w, c)), w, <<>>)

\* create of a review under a generated id
StorePutReview(w, review) ==
  Ext(w, "put reviews", generateReviewId(w),
      [w EXCEPT !.reviews[generateReviewId(w)] = review], "r1")

\* update of a stored review: updates gives the item from the stored one
StoreUpdateReview(w, r, ratings, text, anonymous) ==
  Ext(w, "update reviews", Null,
      [w EXCEPT !.reviews[r] =
         [@ EXCEPT !.ratings = ratings,
                   !.text = IF text # "" THEN text ELSE @,
                   !.anonymous = anonymous]],
      Null)

StoreMarkDeleted(w, r) ==
  Ext(w, "update reviews", Null, [w EXCEPT !.reviews[r].isDeleted = TRUE], Null)

QueryReviewIndex(w, r) ==
  Ext(w, "query votes", getVotesForReview(w, r), w, {})

\* the existingVote getUserVote gives
castVoteRead(w, u, r) ==
  LET found == getUserVote(w, u, r) IN
  IF found = {} THEN NoVote
  ELSE LET v == CHOOSE x \in found : TRUE
       IN [present |-> TRUE, voteType |-> w.votes[v].voteType, voteId |-> v]

QueryUserReviewIndex(w, u, r) ==
  Ext(w, "query votes",
      IF r \in ReviewIds THEN castVoteRead(w, u, r) ELSE NoVote, w, NoVote)

StorePutVote(w, v, vote) ==
      After(Ext(w, "put votes", ~w.votes[v].present,
                IF w.votes[v].present THEN w ELSE [w EXCEPT !.votes[v] = vote], TRUE), LAMBDA w1 :
     IF w1.val THEN w1 ELSE Throw(w1, "Item already exists"))

\* AbstractRepository.update: an UpdateItem with no condition, which stores an
\* item holding only the key and the updated attribute when the key is absent
voteUpdate(w, v, voteType) ==
  [w EXCEPT !.votes[v] =
     IF @.present THEN [@ EXCEPT !.voteType = voteType]
     ELSE [present |-> TRUE, reviewId |-> "", userId |-> "", voteType |-> voteType]]

StoreUpdateVote(w, v, voteType) ==
  Ext(w, "update votes", Null, voteUpdate(w, v, voteType), Null)

StoreDeleteVote(w, v) ==
  Ext(w, "delete vote", Null, [w EXCEPT !.votes[v] = NoVote], Null)

(***************************************************************************)
(* Repositories and ReviewService                                          *)
(***************************************************************************)
\* UserRepository.getOrCreate
userGetOrCreate(w, u) ==
      After(StoreGetUser(w, u), LAMBDA w1 :
     IF w1.val.present THEN w1 ELSE StorePutUser(w1, u))

\* UserRepository.updateProfile
updateProfile(w, u, profile) == StoreUpdateUser(w, u, profile)

\* validateReviewInput with no check at all
validateReviewInputNoCheck(ratings, text) == "none"

\* isValidRating without Number.isInteger
isValidRatingInRange(rating) == atLeast(rating, 1) /\ atMost(rating, 5)

\* ReviewService.isValidRating
isValidRating(rating) == isInteger(rating) /\ atLeast(rating, 1) /\ atMost(rating, 5)

\* text.length of the review texts the model names; "" stands for no text
lengthOf(v) ==
  CASE v = "" -> 0 [] v = "-" -> 1 [] v = "ok" -> 2 [] v = "new" -> 3 [] v = "bx25" -> 4
    [] v = "x2001" -> 2001 [] OTHER -> 6

\* ReviewService.validateReviewInput: the error thrown, "none" if valid
validateReviewInput(ratings, text) ==
  IF ~isValidRating(ratings.overall) THEN "Overall rating must be between 1 and 5"
  ELSE IF ~isValidRating(ratings.quality) THEN "Quality rating must be between 1 and 5"
  ELSE IF ~isValidRating(ratings.difficulty) THEN "Difficulty rating must be between 1 and 5"
  ELSE IF text # "" /\ lengthOf(text) > 2000
    THEN "Review text cannot exceed 2000 characters"
  ELSE "none"

\* VoteRepository.getVoteCountsForReviews: getVotesForReview of every review
RECURSIVE getVoteCountsForReviews(_, _)
getVoteCountsForReviews(w, ids) ==
  IF ids = {} THEN w
  ELSE LET r == CHOOSE x \in ids : TRUE
       IN getVoteCountsForReviews(QueryReviewIndex(w, r), ids \ {r})

\* ReviewRepository.getReviewsForCourse: val is the reviews found
getReviewsForCourse(w, c) ==
      After(QueryCourseIndex(w, c), LAMBDA w1 :
     Ret(getVoteCountsForReviews(w1, DOMAIN w1.val), w1.val))

\* ReviewService.updateCourseAverageRatings, which follows the write of a
\* review: calculateAverageRatings, then the update of the course
updateCourseAverageRatings(w, c) ==
  StoreUpdateCourse(getReviewsForCourse(w, c), c)

\* ReviewRepository.createReview
repositoryCreateReview(w, u, c, ratings, text, anonymous) ==
      After(QueryUserIndex(w, u), LAMBDA w1 :
     IF \E r \in DOMAIN w1.val : w1.val[r].courseId = c
       THEN Throw(w1, "User already has a review for this course")
       ELSE StorePutReview(w1, [present |-> TRUE, userId |-> u, isDeleted |-> FALSE,
                                courseId |-> c, ratings |-> ratings, text |-> text,
                                anonymous |-> anonymous]))

\* ReviewService.createReview
createReview(w, u, c, ratings, text, anonymous) ==
  IF validateReviewInput(ratings, text) # "none"
    THEN Throw(w, validateReviewInput(ratings, text))
  ELSE     After(userGetOrCreate(w, u), LAMBDA w1 :
           After(StoreGetCourse(w1, c), LAMBDA w2 :
           After(QueryUserIndex(w2, u), LAMBDA w3 :
          IF Active(w2) /\ ~w2.val THEN Throw(w2, "Course not found")
          ELSE IF \E r \in DOMAIN w3.val : w3.val[r].courseId = c
            THEN Throw(w3, "User already has a review for this course. Use updateReview instead.")
          ELSE updateCourseAverageRatings(
                 repositoryCreateReview(w3, u, c, ratings, text, anonymous), c))))

\* Promise.all(votes.map(vote => this.delete(vote.voteId))): the deletes of
\* pending are all under way and the store answers them in any order, the
\* one of w.first next when it is among them; the call goes on when all are
\* answered.  What is logged is the vote whose delete was answered.
RECURSIVE deleteVotes(_, _)
deleteVotes(w, pending) ==
  IF pending = {} THEN w
  ELSE LET v == IF w.first \in pending THEN w.first ELSE CHOOSE x \in pending : TRUE
       IN After(Ext(w, "delete votes", v, [w EXCEPT !.votes[v] = NoVote], <<>>),
                LAMBDA w1 : IF w1.n > w.n THEN deleteVotes(w1, pending \ {w1.val}) ELSE w1)

\* VoteRepository.removeVotesForReview
removeVotesForReview(w, r) ==
      After(QueryReviewIndex(w, r), LAMBDA w1 :    deleteVotes(w1, w1.val))

\* ReviewService.deleteReview with ReviewRepository.deleteReview, then
\* updateCourseAverageRatings
deleteReview(w, r, u) ==
      After(StoreGetReview(w, r), LAMBDA w1 :
  LET existingReview == w1.val
  IN IF ~existingReview.present THEN Throw(w1, "Review not found")
     ELSE IF existingReview.userId # u
       THEN Throw(w1, "User can only delete their own reviews")
     ELSE IF existingReview.isDeleted THEN Throw(w1, "Review is already deleted")
     ELSE updateCourseAverageRatings(
            removeVotesForReview(StoreMarkDeleted(w1, r), r), existingReview.courseId))

\* VoteRepository.generateVoteId
generateVoteId(u, r) == <<u, r>>

\* castVote with vote ids drawn afresh, as review ids are
castVoteWriteFreshId(w, u, r, voteType, existingVote) ==
  IF existingVote.present
    THEN IF existingVote.voteType = voteType
      THEN Throw(StoreDeleteVote(w, existingVote.voteId), "Vote removed")
      ELSE StoreUpdateVote(w, existingVote.voteId, voteType)
    ELSE     After(Ext(w, "put votes", \E v \in VoteIds : ~w.votes[v].present,
                       IF \A v \in VoteIds : w.votes[v].present THEN w
                       ELSE [w EXCEPT !.votes[CHOOSE v \in VoteIds : ~w.votes[v].present] =
                               [present |-> TRUE, reviewId |-> r, userId |-> u,
                                voteType |-> voteType]],
                       TRUE), LAMBDA w1 :
            IF w1.val THEN w1 ELSE Throw(w1, "Item already exists"))

\* castVote after getUserVote returned existingVote: delete, update or create
castVoteWrite(w, u, r, voteType, existingVote) ==
  IF existingVote.present
    THEN IF existingVote.voteType = voteType
      THEN Throw(StoreDeleteVote(w, existingVote.voteId), "Vote removed")
      ELSE StoreUpdateVote(w, existingVote.voteId, voteType)
    ELSE StorePutVote(w, generateVoteId(u, r),
                      [present |-> TRUE, reviewId |-> r, userId |-> u,
                       voteType |-> voteType])

\* castVote that leaves a vote of the same direction in place
castVoteKeepSame(w, u, r, voteType) ==
      After(QueryUserReviewIndex(w, u, r), LAMBDA w1 :
     IF w1.val.present /\ w1.val.voteType = voteType THEN Throw(w1, "Vote removed")
     ELSE castVoteWrite(w1, u, r, voteType, w1.val))

\* VoteRepository.castVote
castVote(w, u, r, voteType) ==
      After(QueryUserReviewIndex(w, u, r), LAMBDA w1 :
     castVoteWrite(w1, u, r, voteType, w1.val))

\* ReviewService.voteOnReview
voteOnReview(w, u, r, voteType) ==
      After(StoreGetReview(userGetOrCreate(w, u), r), LAMBDA w1 :
  LET review == w1.val
  IN IF ~review.present THEN Throw(w1, "Review not found")
     ELSE IF review.isDeleted THEN Throw(w1, "Cannot vote on deleted review")
     ELSE IF review.userId = u THEN Throw(w1, "Users cannot vote on their own reviews")
     ELSE     After(  castVote(w1, u, r, voteType), LAMBDA cast :
             IF cast.mode = "run" /\ cast.thrown = "Vote removed"
               THEN [cast EXCEPT !.thrown = "none"] ELSE cast))

\* ReviewService.canUserReviewCourse: val is what it returns
canUserReviewCourse(w, u, c) ==
      After(StoreGetCourse(userGetOrCreate(w, u), c), LAMBDA w1 :
      After(IF w1.val THEN QueryUserIndex(w1, u) ELSE Ret(w1, <<>>), LAMBDA w2 :
     IF ~w1.val THEN Ret(w1, [reason |-> "Course not found", canReview |-> FALSE])
     ELSE IF \E r \in DOMAIN w2.val : w2.val[r].courseId = c
       THEN Ret(w2, [reason |-> "User already has a review for this course",
                     canReview |-> FALSE])
     ELSE Ret(w2, [reason |-> "", canReview |-> TRUE])))

(***************************************************************************)
(* WebhookHandler: the handlers                                            *)
(*                                                                         *)
(* A handler takes the world, the user, the callback data (or the text)    *)
(* and the time, and gives the world afterwards; sent holds the messages   *)
(* it sent.                                                                *)
(***************************************************************************)
Categories == {"CSE", "MAA"}
courseCategory(c) == "CSE"
getCoursesByCategory(category) == {c \in Catalog : courseCategory(c) = category}

\* CourseRepository.getCoursesByCategory: one query of the courses table
StoreQueryCourses(w, category) ==
  Ext(w, "query courses", getCoursesByCategory(category), w, {})

NoRatings == [overall |-> 0, quality |-> 0, difficulty |-> 0]
NoProfile == [present |-> FALSE, name |-> "", promotion |-> ""]

\* a context with no key set
EmptyData ==
  [step |-> "", reviewId |-> "", courseId |-> "", ratings |-> NoRatings,
   text |-> "", anonymous |-> "unset", category |-> "",
   hasRatings |-> FALSE, selectedCategory |-> "",
   userProfile |-> NoProfile, waitingForReviewText |-> FALSE]

\* stateData?.state and stateData?.data, of the value getState returned
stateOf(sd) == IF sd = Null THEN "" ELSE sd.state
dataOf(sd) == IF sd = Null THEN EmptyData ELSE IF sd.data = Null THEN EmptyData ELSE sd.data
hasData(sd) == IF sd = Null THEN FALSE ELSE sd.data # Null

\* the string a sequence of segments spells, when it is one the model names
joinSegs(segs) ==
  IF Len(segs) = 1 THEN segs[1] ELSE IF segs = <<>> THEN ""
  ELSE IF segs = <<"review", "r1">> THEN "review_r1"
  ELSE IF segs = <<"review", "r2">> THEN "review_r2" ELSE "?"

\* parseInt of a digit segment
parseInt(seg) ==
  CASE seg = "0" -> 0 [] seg = "1" -> 1 [] seg = "2" -> 2 [] seg = "3" -> 3
    [] seg = "4" -> 4 [] seg = "5" -> 5 [] seg = "12" -> 12 [] OTHER -> 0

\* StateManager.getState, setState and renewSession: they have no await inside
GetState(w, u, t) ==
  Mem(w, getStateValue(w.states, u, t),
      [w EXCEPT !.states = getStateMap(w.states, u, t)], Null)
SetState(w, u, state, data, t) ==
  Mem(w, Null, [w EXCEPT !.states = setState(w.states, u, state, data, t)], Null)
RenewSession(w, u, t) ==
  Mem(w, Null, [w EXCEPT !.states = renewSession(w.states, u, t)], Null)

\* if (messageId) bot.editMessageText(...), with no else
ShowIfMid(w, tag) == IF w.mid THEN Send(w, "editMessageText", tag) ELSE w

\* reading stateData.data.ratings.overall when the context has no ratings key
TypeError == "Cannot read properties of undefined (reading 'overall')"
\* the message built from the ratings of context d: sent under tag, or the
\* TypeError thrown with nothing sent
ratingsMessage(w, d, tag) ==
  IF d.hasRatings THEN Show(w, tag) ELSE Throw(w, TypeError)
\* "☆".repeat(5 - rating) and "⭐".repeat(rating) of a count below zero;
\* repeat drops the fractional part of its count, so that -0.5 counts as 0
RangeError == "Invalid count value"
invalidCount(rating) ==
  IF rating >= Half THEN rating - Half > 5 ELSE rating < 0 \/ 5 - rating < 0
\* the message that draws the stars of all three ratings: sent with method
\* under tag, or the RangeError thrown with nothing sent
starsMessage(w, ratings, method, tag) ==
  IF invalidCount(ratings.overall) \/ invalidCount(ratings.quality)
     \/ invalidCount(ratings.difficulty)
    THEN Throw(w, RangeError) ELSE Send(w, method, tag)

handleStartCommand(w, u, t) ==
  Send(SetState(w, u, "MAIN_MENU", Undefined, t), "sendMessage", "welcome")

handleHelpCommand(w, u, t) == Send(w, "sendMessage", "help")

handleMainMenuCallback(w, u, t) ==
  Show(SetState(w, u, "MAIN_MENU", Undefined, t), "main_menu")

handleBrowseCategoriesCallback(w, u, t) ==
  Show(SetState(w, u, "BROWSING_CATEGORIES", Undefined, t), "categories")

handlePostReviewCallback(w, u, t) ==
  Show(SetState(w, u, "POSTING_REVIEW",
                [EmptyData EXCEPT !.step = "category_selection"], t),
       "review_categories")

handleCategoryCallback(w, u, data, t) ==
  LET category == IF regexMatch(<<L("category"), A>>, data)
                    THEN joinSegs(Tail(data)) ELSE ""
   IN After(SetState(w, u, "BROWSING_CATEGORIES",
                     [EmptyData EXCEPT !.selectedCategory = category], t), LAMBDA w1 :
      After(StoreQueryCourses(w1, category), LAMBDA w2 :
     IF category \notin Categories
       THEN sendErrorMessage(w, "error: Invalid category selected.")
       ELSE Show(w2, IF w2.val = {} THEN "no_courses" ELSE "course_list")))

handleCourseCallback(w, u, data, t) ==
  LET courseId == IF regexMatch(<<L("course"), A>>, data)
                    THEN joinSegs(Tail(data)) ELSE ""
   IN After(StoreGetCourse(w, courseId), LAMBDA w1 :
     IF courseId = "" THEN sendErrorMessage(w, "error: Invalid course selected.")
     ELSE IF ~w1.val THEN sendErrorMessage(w1, "error: Course not found.")
     ELSE Show(SetState(w1, u, "VIEWING_COURSE",
                        [EmptyData EXCEPT !.courseId = courseId,
                                          !.category = courseCategory(courseId)], t),
               "course_details"))

handleBackCallback(w, u, data, t) ==
  LET target == Tail(data)
   IN After(GetState(w, u, t), LAMBDA w1 :
  LET sd == w1.val
  IN CASE target = <<"main", "menu">> -> handleMainMenuCallback(w, u, t)
       [] target = <<"categories">> -> handleBrowseCategoriesCallback(w, u, t)
       [] target = <<"to", "category">> ->
            IF dataOf(sd).category # ""
              THEN handleCategoryCallback(w1, u, <<"category", dataOf(sd).category>>, t)
              ELSE handleBrowseCategoriesCallback(w1, u, t)
       [] target = <<"course">> ->
            IF dataOf(sd).courseId # ""
              THEN handleCourseCallback(w1, u, <<"course", dataOf(sd).courseId>>, t)
              ELSE handleBrowseCategoriesCallback(w1, u, t)
       [] OTHER ->
            IF Head(target) = "category" /\ Len(target) > 1
              THEN handleCategoryCallback(w, u, target, t)
            ELSE IF Head(target) = "course" /\ Len(target) > 1
              THEN handleCourseCallback(w, u, target, t)
            ELSE handleMainMenuCallback(w, u, t))

handleCategoriesPageCallback(w, u, data, t) ==
      After(GetState(w, u, t), LAMBDA w1 :
     IF stateOf(w1.val) \notin {"POSTING_REVIEW", "BROWSING_CATEGORIES"}
       THEN sendErrorMessage(w1, "error: Invalid state for category selection.")
       ELSE Show(w1, "categories_page"))

\* data.match(/^courses_(.+)_page_(\d+)$/): the category is what stands
\* between the first segment and the last two
handleCoursesPageCallback(w, u, data, t) ==
  LET category == IF regexMatch(<<L("courses"), A, L("page"), S(DigitSegs)>>, data)
                    THEN joinSegs(SubSeq(data, 2, Len(data) - 2)) ELSE ""
   IN After(StoreQueryCourses(w, category), LAMBDA w1 :
     IF category \notin Categories
       THEN sendErrorMessage(w, "error: Invalid category selected.")
       ELSE Show(w1, "course_list"))

inPostingWithCourse(sd) ==
  stateOf(sd) = "POSTING_REVIEW" /\ dataOf(sd).courseId # ""

handleReviewCategoryCallback(w, u, data, t) ==
  LET category == joinSegs(SubSeq(data, 3, Len(data)))
   IN After(GetState(w, u, t), LAMBDA w1 :
  LET sd == w1.val
   IN After(StoreQueryCourses(w1, category), LAMBDA w2 :
     IF category \notin Categories
       THEN sendErrorMessage(w, "error: Invalid category selected.")
     ELSE IF stateOf(sd) # "POSTING_REVIEW"
       THEN sendErrorMessage(w1, "error: Invalid state for course selection.")
     ELSE IF w2.val = {} THEN ShowIfMid(w2, "no_courses")
     ELSE Show(SetState(w2, u, "POSTING_REVIEW",
                        [EmptyData EXCEPT !.step = "course_selection",
                                          !.category = category], t),
               "review_course_list")))

handleReviewCourseCallback(w, u, data, t) ==
  LET courseId == IF regexMatch(<<L("review"), L("course"), A>>, data)
                    THEN joinSegs(SubSeq(data, 3, Len(data))) ELSE ""
   IN After(GetState(w, u, t), LAMBDA w1 :
  LET sd == w1.val
   IN After(canUserReviewCourse(w1, u, courseId), LAMBDA w2 :
  LET can == w2.val
   IN After(StoreGetCourse(w2, courseId), LAMBDA w3 :
     catch(
       IF courseId = "" THEN sendErrorMessage(w, "error: Invalid course selected.")
       ELSE IF stateOf(sd) # "POSTING_REVIEW"
         THEN sendErrorMessage(w1, "error: Invalid state for rating selection.")
       ELSE IF ~Active(w2) THEN w2
       ELSE IF ~can.canReview
         THEN ShowIfMid(w2, IF can.reason = "User already has a review for this course"
                              THEN "offer_edit_existing" ELSE "cannot_review")
       ELSE IF ~w3.val THEN sendErrorMessage(w3, "error: Course not found.")
       ELSE Show(SetState(w3, u, "POSTING_REVIEW",
                          [EmptyData EXCEPT !.step = "rating_overall",
                                            !.category = dataOf(sd).category,
                                            !.courseId = courseId,
                                            !.hasRatings = TRUE], t),
                 "rate_overall"),
       "error: Failed to start rating."))))

handleRatingCallback(w, u, data, t) ==
  LET ratingType == joinSegs(SubSeq(data, 2, Len(data) - 1))
      rating == parseInt(data[Len(data)])
   IN After(GetState(w, u, t), LAMBDA w1 :
  LET sd == w1.val
      d == dataOf(sd)
      updatedRatings ==
        IF ratingType \in {"overall", "quality", "difficulty"}
          THEN [d.ratings EXCEPT ![ratingType] = rating] ELSE d.ratings
      nextStep == IF ratingType = "overall" THEN "rating_quality"
                  ELSE IF ratingType = "quality" THEN "rating_difficulty"
                  ELSE "text_input"
  IN IF rating < 1 \/ rating > 5
       THEN sendErrorMessage(w, "error: Invalid rating selected.")
     ELSE IF ~inPostingWithCourse(sd)
       THEN sendErrorMessage(w1, "error: Invalid state for rating.")
     ELSE Show(SetState(w1, u, "POSTING_REVIEW",
                        [d EXCEPT !.step = nextStep, !.hasRatings = TRUE,
                                  !.ratings = updatedRatings], t),
               nextStep))

handleSkipTextReviewCallback(w, u, t) ==
      After(GetState(w, u, t), LAMBDA w1 :
  LET sd == w1.val
  IN IF ~inPostingWithCourse(sd)
       THEN sendErrorMessage(w1, "error: Invalid state for anonymity selection.")
     ELSE catch(ratingsMessage(
                  SetState(w1, u, "POSTING_REVIEW",
                           [dataOf(sd) EXCEPT !.step = "anonymity_selection"], t),
                  dataOf(sd), "anonymity_selection"),
                "error: Failed to proceed."))

\* showReviewConfirmation: reads the state, sends the summary built from the
\* ratings; it has no catch of its own
showReviewConfirmation(w, u, t) ==
      After(GetState(w, u, t), LAMBDA w1 :
  LET sd == w1.val
  IN IF ~hasData(sd) THEN w1 ELSE ratingsMessage(w1, dataOf(sd), "confirmation"))

handleAnonymityCallback(w, u, data, t) ==
  LET anonymous == data[3] = "yes"
   IN After(GetState(w, u, t), LAMBDA w1 :
  LET sd == w1.val
      d == dataOf(sd)
   IN After(StoreGetUser(w1, u), LAMBDA w2 :
  LET user == w2.val
  IN IF ~inPostingWithCourse(sd)
       THEN sendErrorMessage(w1, "error: Invalid state for review confirmation.")
     ELSE IF anonymous
       THEN catch(showReviewConfirmation(
                    SetState(w1, u, "POSTING_REVIEW",
                             [d EXCEPT !.step = "confirmation", !.anonymous = "true"], t),
                    u, t),
                  "error: Failed to set anonymity.")
     ELSE IF ~user.present THEN
       Show(SetState(w2, u, "COLLECTING_NAME",
                     [d EXCEPT !.anonymous = "false",
                               !.userProfile = [present |-> TRUE, name |-> "",
                                                promotion |-> ""]], t),
            "ask_name")
     ELSE IF user.name # "" /\ user.promotion # ""
       THEN catch(showReviewConfirmation(
                    SetState(w2, u, "POSTING_REVIEW",
                             [d EXCEPT !.step = "confirmation", !.anonymous = "false",
                                       !.userProfile = [present |-> TRUE, name |-> user.name,
                                                        promotion |-> user.promotion]], t),
                    u, t),
                  "error: Failed to set anonymity.")
     ELSE Show(SetState(w2, u, "COLLECTING_NAME",
                        [d EXCEPT !.anonymous = "false",
                                  !.userProfile = [present |-> TRUE, name |-> "",
                                                   promotion |-> ""]], t),
               "ask_name")))

\* reviewError.message?.includes("already reviewed"), over the messages thrown
includesAlreadyReviewed(message) ==
  message \in {"You have already reviewed this course"}

\* the inner catch of handleConfirmReviewCallback: the failure is shown in
\* place of the loading message
catchReviewError(w) ==
  IF w.mode = "run" /\ w.thrown # "none"
    THEN Show([w EXCEPT !.thrown = "none"],
              IF includesAlreadyReviewed(w.thrown)
                THEN "submit_failed_already_reviewed" ELSE "submit_failed")
    ELSE w

\* handleConfirmReviewCallback that leaves the session as it is after the commit
handleConfirmReviewCallbackKeepDraft(w, u, t) ==
      After(GetState(w, u, t), LAMBDA w1 :
  LET sd == w1.val
      d == dataOf(sd)
   IN After(Show(w1, "submitting"), LAMBDA w2 :
      After(IF ~d.hasRatings THEN Throw(w2, "Incomplete review data in state.")
            ELSE IF d.ratings.overall = 0 \/ d.ratings.quality = 0
                    \/ d.ratings.difficulty = 0
              THEN Throw(w2, "Incomplete ratings in state.")
            ELSE createReview(w2, u, d.courseId, d.ratings, d.text, d.anonymous = "true"), LAMBDA w3 :
     IF ~inPostingWithCourse(sd)
       THEN sendErrorMessage(w1, "error: Invalid state for review submission.")
     ELSE catchReviewError(Show(w3, "review_submitted")))))

handleConfirmReviewCallback(w, u, t) ==
      After(GetState(w, u, t), LAMBDA w1 :
  LET sd == w1.val
      d == dataOf(sd)
   IN After(Show(w1, "submitting"), LAMBDA w2 :
      After(IF ~d.hasRatings THEN Throw(w2, "Incomplete review data in state.")
            ELSE IF d.ratings.overall = 0 \/ d.ratings.quality = 0
                    \/ d.ratings.difficulty = 0
              THEN Throw(w2, "Incomplete ratings in state.")
            ELSE createReview(w2, u, d.courseId, d.ratings, d.text, d.anonymous = "true"), LAMBDA w3 :
     IF ~inPostingWithCourse(sd)
       THEN sendErrorMessage(w1, "error: Invalid state for review submission.")
     ELSE catchReviewError(
            Show(SetState(w3, u, "MAIN_MENU", Undefined, t), "review_submitted")))))

handleCancelReviewCallbackKeepState(w, u, t) == Show(w, "review_cancelled")
handleCancelReviewCallback(w, u, t) ==
  Show(SetState(w, u, "MAIN_MENU", Undefined, t), "review_cancelled")

\* free text: what was typed and how long it is
textLength(text) == text.len
toLowerCase(v) == IF v = "Cancel" THEN "cancel" ELSE v
toUpperCase(v) == IF v = "bx25" THEN "BX25" ELSE v

handleNameInput(w, u, text, t) ==
      After(GetState(w, u, t), LAMBDA w1 :
  LET sd == w1.val
      d == dataOf(sd)
  IN IF textLength(text) < 2 \/ textLength(text) > 40
       THEN Send(w, "sendMessage", "invalid_name")
     ELSE IF ~hasData(sd) THEN w1
     ELSE Send(SetState(w1, u, "COLLECTING_PROMOTION",
                        [d EXCEPT !.userProfile =
                           [present |-> TRUE, name |-> text.v,
                            promotion |-> d.userProfile.promotion]], t),
               "sendMessage", "ask_promotion"))

handlePromotionInput(w, u, text, t) ==
      After(GetState(w, u, t), LAMBDA w1 :
  LET sd == w1.val
      d == dataOf(sd)
      userProfile == [present |-> TRUE, name |-> d.userProfile.name,
                      promotion |-> toUpperCase(text.v)]
  IN IF textLength(text) # 4 THEN Send(w, "sendMessage", "invalid_promotion")
     ELSE IF ~hasData(sd) THEN w1
     ELSE showReviewConfirmation(
            Send(SetState(updateProfile(w1, u, userProfile), u, "POSTING_REVIEW",
                          [d EXCEPT !.step = "confirmation", !.anonymous = "false",
                                    !.userProfile = userProfile], t),
                 "sendMessage", "profile_completed"), u, t))

handleReviewTextInput(w, u, text, t) ==
      After(GetState(w, u, t), LAMBDA w1 :
  LET sd == w1.val
  IN IF ~inPostingWithCourse(sd)
       THEN sendErrorMessage(w1, "error: Invalid state for text input.")
     ELSE IF textLength(text) > 2000 THEN Send(w1, "sendMessage", "text_too_long")
     ELSE catch(ratingsMessage(
                  SetState(w1, u, "POSTING_REVIEW",
                           [dataOf(sd) EXCEPT !.step = "anonymity_selection",
                                              !.text = text.v,
                                              !.waitingForReviewText = FALSE], t),
                  dataOf(sd), "anonymity_selection"),
                "error: Failed to save review text."))

handleAddTextReviewCallback(w, u, t) ==
      After(GetState(w, u, t), LAMBDA w1 :
  LET sd == w1.val
  IN IF ~inPostingWithCourse(sd)
       THEN sendErrorMessage(w1, "error: Invalid state for text input.")
     ELSE catch(ratingsMessage(
                  SetState(w1, u, "POSTING_REVIEW",
                           [dataOf(sd) EXCEPT !.step = "text_input",
                                              !.waitingForReviewText = TRUE], t),
                  dataOf(sd), "ask_text"),
                "error: Failed to start text input."))

handleEditCurrentReviewCallback(w, u, t) ==
      After(GetState(w, u, t), LAMBDA w1 :
  LET sd == w1.val
  IN IF ~inPostingWithCourse(sd)
       THEN sendErrorMessage(w1, "error: Invalid state for review editing.")
     ELSE catch(ratingsMessage(w1, dataOf(sd), "edit_current_menu"),
                "error: Failed to show edit options."))

\* the page a my_reviews callback asks for: /_page_(\d+)/, else 1
myReviewsPage(data) ==
  IF Len(data) >= 4 /\ data[3] = "page" /\ data[4] \in DigitSegs
    THEN parseInt(data[4]) ELSE 1

\* userReviews.slice(startIndex, endIndex) with five reviews to a page, of no
\* more reviews than fit on the first page
slicePage(ids, page) == IF page = 1 THEN ids ELSE {}

\* Promise.all of getCourseDetails over the reviews of the page
RECURSIVE courseDetailsOf(_, _, _)
courseDetailsOf(w, items, ids) ==
  IF ids = {} THEN w
  ELSE LET r == CHOOSE x \in ids : TRUE
       IN courseDetailsOf(StoreGetCourse(w, items[r].courseId), items, ids \ {r})

handleMyReviewsCallback(w, u, data, t) ==
      After(SetState(w, u, "VIEWING_MY_REVIEWS", Undefined, t), LAMBDA w1 :
      After(QueryUserIndex(w1, u), LAMBDA w2 :
  LET userReviews == w2.val
      shown == slicePage(DOMAIN userReviews, myReviewsPage(data))
   IN After(courseDetailsOf(w2, userReviews, shown), LAMBDA w3 :
     catch(
       IF DOMAIN userReviews = {} THEN Show(w2, "no_reviews")
       ELSE IF \E r \in shown : invalidCount(userReviews[r].ratings.overall)
         THEN Throw(w3, RangeError)
       ELSE Show(w3, "my_reviews"),
       "error: Failed to load your reviews."))))

handleWriteReviewCallback(w, u, data, t) ==
  LET courseId == joinSegs(SubSeq(data, 3, Len(data)))
  IN IF courseId = "" THEN sendErrorMessage(w, "error: Invalid course selected.")
     ELSE handleReviewCourseCallback(
            SetState(w, u, "POSTING_REVIEW",
                     [EmptyData EXCEPT !.step = "rating_overall", !.courseId = courseId], t),
            u, <<"review", "course", courseId>>, t)

handleEditAnonymityCallback(w, u, t) ==
      After(GetState(w, u, t), LAMBDA w1 :
     IF ~inPostingWithCourse(w1.val)
       THEN sendErrorMessage(w1, "error: Invalid state for anonymity editing.")
       ELSE Show(w1, "edit_anonymity_menu"))

handleEditReviewTextCallback(w, u, t) ==
      After(GetState(w, u, t), LAMBDA w1 :
  LET sd == w1.val
  IN IF ~inPostingWithCourse(sd)
       THEN sendErrorMessage(w1, "error: Invalid state for text editing.")
     ELSE Show(SetState(w1, u, "POSTING_REVIEW",
                        [dataOf(sd) EXCEPT !.step = "text_input",
                                           !.waitingForReviewText = TRUE], t),
               "ask_text"))

handleRemoveReviewTextCallback(w, u, t) ==
      After(GetState(w, u, t), LAMBDA w1 :
  LET sd == w1.val
  IN IF ~inPostingWithCourse(sd)
       THEN sendErrorMessage(w1, "error: Invalid state for text removal.")
     ELSE handleSkipTextReviewCallback(
            SetState(w1, u, "POSTING_REVIEW",
                     [dataOf(sd) EXCEPT !.step = "anonymity_selection", !.text = "",
                                        !.waitingForReviewText = FALSE], t), u, t))

\* the review id a callback carries after its first n segments
reviewIdAfter(data, n) == joinSegs(SubSeq(data, n + 1, Len(data)))

handleManageReviewCallback(w, u, data, t) ==
  LET reviewId == reviewIdAfter(data, 2)
   IN After(QueryUserIndex(w, u), LAMBDA w1 :
  LET userReviews == w1.val
   IN After(StoreGetCourse(w1, userReviews[reviewId].courseId), LAMBDA w2 :
     catch(
       IF reviewId \notin DOMAIN userReviews
         THEN Send(w1, "editMessageText", "review_not_found")
         ELSE starsMessage(w2, userReviews[reviewId].ratings,
                           IF w.mid THEN "editMessageText" ELSE "sendMessage",
                           "manage_review"),
       "error: Failed to load review details.")))

handleDeleteReviewCallback(w, u, data, t) ==
  LET reviewId == reviewIdAfter(data, 2)
   IN After(QueryUserIndex(w, u), LAMBDA w1 :
  LET userReviews == w1.val
  IN IF reviewId \notin DOMAIN userReviews
       THEN Send(w1, "editMessageText", "review_not_found")
       ELSE Show(StoreGetCourse(w1, userReviews[reviewId].courseId),
                 "confirm_delete_prompt"))

handleConfirmDeleteReviewCallback(w, u, data, t) ==
  catch(Show(deleteReview(w, reviewIdAfter(data, 2), u), "review_deleted"),
        "error: Failed to delete review.")

\* Promise.all over the reviews shown: getUserVoteForReview and, for a review
\* that is not anonymous, the get of its author
RECURSIVE userVotesOf(_, _, _, _)
userVotesOf(w, u, items, ids) ==
  IF ids = {} THEN w
  ELSE LET r == CHOOSE x \in ids : TRUE
        IN After(QueryUserReviewIndex(w, u, r), LAMBDA w1 :
          userVotesOf(IF items[r].anonymous THEN w1
                      ELSE StoreGetUser(w1, items[r].userId),
                      u, items, ids \ {r}))

\* displayReviewsForCourse, which has a catch of its own
displayReviewsForCourse(w, u, courseId, t) ==
      After(StoreGetCourse(w, courseId), LAMBDA w1 :
      After(getReviewsForCourse(w1, courseId), LAMBDA w2 :
  LET found == w2.val
  IN catch(
       IF ~w1.val THEN sendErrorMessage(w1, "error: Course not found.")
       ELSE IF DOMAIN found = {} THEN Show(w2, "no_reviews_yet")
       ELSE Show(userVotesOf(w2, u, found, DOMAIN found), "reviews_page"),
       "error: Failed to load reviews.")))

handleViewReviewsCallback(w, u, data, t) ==
  LET courseId == joinSegs(Tail(data))
  IN IF courseId = "" THEN sendErrorMessage(w, "error: Invalid course selected.")
     ELSE displayReviewsForCourse(w, u, courseId, t)

handleReviewsPageCallback(w, u, data, t) ==
  LET courseId == IF regexMatch(<<L("reviews"), A, L("page"), S(DigitSegs)>>, data)
                    THEN joinSegs(SubSeq(data, 2, Len(data) - 2)) ELSE ""
  IN IF courseId = "" THEN sendErrorMessage(w, "error: Invalid course selected.")
     ELSE displayReviewsForCourse(w, u, courseId, t)

\* the alert handleVoteCallback answers a failed vote with
voteErrorMessage(message) ==
  IF message = "Users cannot vote on their own reviews"
    THEN "You cannot vote on your own reviews."
  ELSE IF message = "Cannot vote on deleted review"
    THEN "Cannot vote on deleted reviews."
  ELSE "Failed to record vote."

handleVoteCallback(w, u, data, t) ==
  LET reviewId == joinSegs(SubSeq(data, 2, Len(data) - 1))
      voteType == data[Len(data)]
   IN After(voteOnReview(w, u, reviewId, voteType), LAMBDA w1 :
      After(StoreGetReview(w1, reviewId), LAMBDA w2 :
  LET reviewData == w2.val
   IN After(IF reviewData.present
              THEN displayReviewsForCourse(w2, u, reviewData.courseId, t) ELSE w2, LAMBDA w3 :
      After(Send(w3, "answerCallbackQuery", "vote_recorded"), LAMBDA w4 :
     IF Len(data) < 3 \/ voteType \notin {"up", "down"}
       THEN sendErrorMessage(w, "error: Invalid vote action.")
     ELSE IF w4.mode = "run" /\ w4.thrown # "none"
       THEN Send([w4 EXCEPT !.thrown = "none"], "answerCallbackQuery",
                 voteErrorMessage(w4.thrown))
     ELSE w4))))

handleCourseDetailsCallback(w, u, data, t) ==
  handleCourseCallback(w, u, <<"course">> \o SubSeq(data, 3, Len(data)), t)

(***************************************************************************)
(* ReviewEditHandler                                                       *)
(*                                                                         *)
(* editingReviews maps a user to the draft object being edited.  A handler *)
(* reads the object and changes it in place between two awaits; only       *)
(* handleSaveReviewCallback keeps a reference over an await: the ratings   *)
(* it passes on are those of the object it holds, read when the update of  *)
(* the review is built.                                                    *)
(***************************************************************************)
\* editingReviews.get(userId)
GetDraft(w, u) == Mem(w, w.editingReviews[u], w, NoDraft)

\* editingReviews.get(userId), of which the caller keeps the object
GetDraftHeld(w, u) ==
  Mem(w, w.editingReviews[u],
      IF w.editingReviews[u].present
        THEN [w EXCEPT !.hold = [user |-> u, status |-> "live"]] ELSE w,
      NoDraft)

\* the ratings of the object held: those of the draft in the map while it is
\* still that object, those the object had when the map let go of it otherwise
HeldRatings(w, u) ==
  Mem(w, IF w.hold.status = "frozen" THEN w.hold.ratings
         ELSE w.editingReviews[u].ratings,
      [w EXCEPT !.hold = NoHold], NoRatings)

\* review.x = ...; editingReviews.set(userId, review): the object changes in place
PutDraft(w, u, draft) == Mem(w, Null, [w EXCEPT !.editingReviews[u] = draft], Null)

\* editingReviews.set(userId, a new object)
NewDraft(w, u, draft) ==
  Mem(w, Null, [w EXCEPT !.editingReviews[u] = draft, !.dropped = @ \cup {u}], Null)

\* editingReviews.delete(userId)
DeleteDraft(w, u) ==
  Mem(w, Null, [w EXCEPT !.editingReviews[u] = NoDraft, !.dropped = @ \cup {u}], Null)

\* ReviewService.updateReview with ReviewRepository.updateReview, called with
\* the text and the anonymity of draft and with the ratings of the object held
updateReview(w, reviewId, u, draft) ==
      After(StoreGetReview(w, reviewId), LAMBDA w1 :
  LET existingReview == w1.val
   IN After(HeldRatings(w1, u), LAMBDA w2 :
     IF validateReviewInput(draft.ratings, draft.text) # "none"
       THEN Throw(w, validateReviewInput(draft.ratings, draft.text))
     ELSE IF ~existingReview.present THEN Throw(w1, "Review not found")
     ELSE IF existingReview.userId # u
       THEN Throw(w1, "User can only update their own reviews")
     ELSE IF existingReview.isDeleted THEN Throw(w1, "Cannot update deleted review")
     ELSE updateCourseAverageRatings(
            StoreUpdateReview(w2, reviewId, w2.val, draft.text, draft.anonymous),
            existingReview.courseId)))

\* the draft made of a stored review: {...review, courseName}
draftOf(reviewId, review) ==
  [present |-> TRUE, reviewId |-> reviewId,
   courseId |-> review.courseId,
   ratings |-> review.ratings,
   text |-> review.text,
   anonymous |-> review.anonymous]

\* formatEditReviewMessage: the edit menu, with the stars of the draft
formatEditReviewMessage(w, draft, method) ==
  starsMessage(w, draft.ratings, method, "edit_review_menu")

\* formatRatingEditMessage: the rating editor, with the stars of one rating
formatRatingEditMessage(w, draft, ratingType) ==
  IF ratingType \in DOMAIN draft.ratings /\ invalidCount(draft.ratings[ratingType])
    THEN Throw(w, RangeError) ELSE Send(w, "editMessageText", "rating_editor")

editHandleEditReviewCallback(w, u, data, t) ==
  LET reviewId == reviewIdAfter(data, 2)
   IN After(QueryUserIndex(w, u), LAMBDA w1 :
  LET userReviews == w1.val
      editingReview == draftOf(reviewId, userReviews[reviewId])
   IN After(StoreGetCourse(w1, userReviews[reviewId].courseId), LAMBDA w2 :
      After(SetState(NewDraft(w2, u, editingReview), u, "EDITING_REVIEW",
                     [EmptyData EXCEPT !.reviewId = reviewId], t), LAMBDA w3 :
     catch(
       IF reviewId \notin DOMAIN userReviews
         THEN Send(w1, "editMessageText", "review_not_found")
         ELSE formatEditReviewMessage(w3, editingReview, "editMessageText"),
       "error: Failed to load review for editing."))))

editHandleEditRatingCallback(w, u, data, t) ==
  LET reviewId == joinSegs(SubSeq(data, 3, Len(data) - 1))
      ratingType == data[Len(data)]
   IN After(GetDraft(w, u), LAMBDA w1 :
      After(QueryUserIndex(w1, u), LAMBDA w2 :
  LET userReviews == w2.val
      review == draftOf(reviewId, userReviews[reviewId])
   IN After(StoreGetCourse(w2, userReviews[reviewId].courseId), LAMBDA w3 :
      After(SetState(NewDraft(w3, u, review), u, "EDITING_REVIEW",
                     [EmptyData EXCEPT !.reviewId = reviewId], t), LAMBDA w4 :
     catch(
       IF Len(data) < 4 THEN Throw(w, "Invalid edit rating callback data")
       ELSE IF w1.val.present THEN formatRatingEditMessage(w1, w1.val, ratingType)
       ELSE IF reviewId \notin DOMAIN userReviews
         THEN Send(w2, "sendMessage", "no_review_being_edited")
       ELSE formatRatingEditMessage(w4, review, ratingType),
       "error: Failed to load rating editor.")))))

\* a parse that takes the part after set_rating_ for the whole review id
parseSetRatingFirstPart(parts) ==
  IF Len(parts) < 5
    THEN [message |-> "Invalid set rating callback data", error |-> TRUE]
  ELSE IF parseInt(parts[Len(parts)]) < 1 \/ parseInt(parts[Len(parts)]) > 5
    THEN [message |-> "Invalid rating value", error |-> TRUE]
  ELSE [reviewId |-> <<parts[3]>>, message |-> "none", ratingType |-> parts[Len(parts) - 1],
        error |-> FALSE,
        ratingValue |-> parseInt(parts[Len(parts)])]

\* handleSetRatingCallback up to its guards: data.split('_'), the last part
\* as the value, the last but one as the rating type,
\* parts.slice(2, -2).join('_') as the review id (kept as its segments), and
\* the errors thrown for fewer than five parts and for a value outside 1..5
parseSetRating(parts) ==
  IF Len(parts) < 5
    THEN [message |-> "Invalid set rating callback data", error |-> TRUE]
  ELSE IF parseInt(parts[Len(parts)]) < 1 \/ parseInt(parts[Len(parts)]) > 5
    THEN [message |-> "Invalid rating value", error |-> TRUE]
  ELSE [reviewId |-> SubSeq(parts, 3, Len(parts) - 2), message |-> "none",
        ratingType |-> parts[Len(parts) - 1],
        error |-> FALSE,
        ratingValue |-> parseInt(parts[Len(parts)])]

\* createEditReviewKeyboard: the callback_data of the buttons of the edit menu
createEditReviewKeyboard(reviewId) ==
  {<<"edit", "rating">> \o reviewId \o <<ratingType>> :
     ratingType \in {"overall", "quality", "difficulty"}}
    \cup {<<"edit", "text">> \o reviewId, <<"edit", "anonymous">> \o reviewId,
          <<"save", "review">> \o reviewId, <<"cancel", "edit">> \o reviewId,
          <<"my", "reviews">>}

\* handleSetRatingCallback: the edit menu goes out with the keyboard built
\* for the review id parsed from the data
editReviewMenu(w, review, reviewId) ==
  After(formatEditReviewMessage(w, review, "editMessageText"), LAMBDA w1 :
    IF w1.n > w.n THEN [w1 EXCEPT !.markup = createEditReviewKeyboard(reviewId)]
    ELSE w1)

editHandleSetRatingCallback(w, u, data, t) ==
  LET parsed == parseSetRating(data)
   IN After(GetDraft(w, u), LAMBDA w1 :
  LET review == IF parsed.ratingType \in DOMAIN w1.val.ratings
                  THEN [w1.val EXCEPT !.ratings[parsed.ratingType] = parsed.ratingValue]
                  ELSE w1.val
  IN catch(
       IF parsed.error THEN Throw(w, parsed.message)
       ELSE IF ~w1.val.present THEN Send(w1, "sendMessage", "no_review_being_edited")
       ELSE editReviewMenu(PutDraft(w1, u, review), review, parsed.reviewId),
       "error: Failed to update rating."))

editHandleEditTextCallback(w, u, data, t) ==
  LET reviewId == reviewIdAfter(data, 2)
   IN After(GetDraft(w, u), LAMBDA w1 :
     IF ~w1.val.present THEN Send(w1, "sendMessage", "no_review_being_edited")
     ELSE SetState(Send(w1, "editMessageText", "ask_new_text"),
                   u, "EDITING_REVIEW_TEXT",
                   [EmptyData EXCEPT !.reviewId = reviewId], t))

\* the end of handleTextInput: the edit menu is formatted and sent, and only
\* then the session goes back to EDITING_REVIEW
menuThenState(w, u, review, back, t) ==
  SetState(formatEditReviewMessage(w, review, "sendMessage"), u, "EDITING_REVIEW", back, t)

editHandleTextInput(w, u, text, t) ==
      After(GetState(w, u, t), LAMBDA w1 :
  LET sd == w1.val
      reviewId == dataOf(sd).reviewId
      back == [EmptyData EXCEPT !.reviewId = reviewId]
   IN After(GetDraft(w1, u), LAMBDA w2 :
  LET review == w2.val
      cleared == [review EXCEPT !.text = ""]
      typed == [review EXCEPT !.text = text.v]
  IN catch(
       IF stateOf(sd) # "EDITING_REVIEW_TEXT" THEN w1
       ELSE IF reviewId = "" THEN Send(w1, "sendMessage", "no_review_being_edited")
       ELSE IF ~review.present THEN Send(w2, "sendMessage", "no_review_being_edited")
       ELSE IF toLowerCase(text.v) = "cancel" THEN menuThenState(w2, u, review, back, t)
       ELSE IF text.v = "-"
         THEN menuThenState(PutDraft(w2, u, cleared), u, cleared, back, t)
       ELSE IF textLength(text) > 2000 THEN Send(w2, "sendMessage", "text_too_long")
       ELSE menuThenState(PutDraft(w2, u, typed), u, typed, back, t),
       "error: Failed to update review text.")))

editHandleEditAnonymousCallback(w, u, data, t) ==
      After(GetDraft(w, u), LAMBDA w1 :
  LET review == [w1.val EXCEPT !.anonymous = ~@]
  IN catch(
       IF ~w1.val.present THEN Send(w1, "sendMessage", "no_review_being_edited")
       ELSE formatEditReviewMessage(PutDraft(w1, u, review), review, "editMessageText"),
       "error: Failed to toggle anonymity."))

editHandleSaveReviewCallback(w, u, data, t) ==
  LET reviewId == reviewIdAfter(data, 2)
   IN After(GetDraftHeld(w, u), LAMBDA w1 :
  LET editedReview == w1.val
  IN catch(
       IF ~editedReview.present THEN Send(w1, "sendMessage", "no_review_being_edited")
       ELSE Send(SetState(DeleteDraft(updateReview(w1, reviewId, u, editedReview), u),
                          u, "VIEWING_MY_REVIEWS", Undefined, t),
                 "editMessageText", "review_updated"),
       "error: Failed to save review changes."))

editHandleCancelEditCallback(w, u, data, t) ==
  Send(SetState(DeleteDraft(w, u), u, "VIEWING_MY_REVIEWS", Undefined, t),
       "editMessageText", "edit_cancelled")

(***************************************************************************)
(* WebhookHandler: processUpdate and the dispatch of one update            *)
(***************************************************************************)
SessionCallbacks ==
  {<<"main", "menu">>, <<"browse", "categories">>, <<"post", "review">>,
   <<"category", "CSE">>, <<"course", "c1">>, <<"course", "details", "c1">>,
   <<"review", "category", "CSE">>, <<"review", "course", "c1">>,
   <<"rating", "overall", "4">>, <<"rating", "quality", "4">>,
   <<"rating", "difficulty", "3">>, <<"skip", "text", "review">>,
   <<"review", "anonymous", "no">>, <<"confirm", "review">>,
   <<"edit", "review", "r1">>, <<"edit", "review", "text">>,
   <<"save", "review", "r1">>, <<"my", "reviews">>,
   <<"cancel", "review">>, <<"confirm", "delete", "r1">>, <<"edit", "text", "r1">>,
   <<"cancel", "edit", "r1">>, <<"write", "review", "c1">>}

\* the callback data of the runs that edit a review, and of those that post one
DraftCallbacks ==
  {<<"edit", "review", "r1">>, <<"set", "rating", "r1", "overall", "5">>,
   <<"edit", "text", "r1">>, <<"edit", "anonymous", "r1">>, <<"save", "review", "r1">>,
   <<"cancel", "edit", "r1">>, <<"main", "menu">>, <<"my", "reviews">>}
PostCallbacks ==
  {<<"write", "review", "c1">>, <<"post", "review">>, <<"review", "course", "c1">>,
   <<"rating", "overall", "4">>, <<"rating", "quality", "4">>,
   <<"rating", "difficulty", "3">>, <<"skip", "text", "review">>,
   <<"review", "anonymous", "no">>, <<"confirm", "review">>, <<"main", "menu">>}

\* the handler each callback data of the runs is routed to
routeOf ==
  [data \in SessionCallbacks \cup DraftCallbacks \cup PostCallbacks
             \cup {<<"confirm", "delete", "r2">>, <<"confirm", "delete", "review", "r1">>,
                   <<"confirm", "delete", "review", "r2">>}
             \cup {<<"edit", "review", "r2">>, <<"save", "review", "r2">>}
             \cup {<<"add", "text", "review">>, <<"rating", "overall", "12">>,
                   <<"vote", "r1", "up">>, <<"noop">>, <<"browse", "courses">>,
                   <<"my", "reviews", "page", "2">>} |->
     routeHandler(data)]

handleTextInput(w, u, text, t) ==
      After(GetState(w, u, t), LAMBDA w1 :
  LET sd == w1.val
      currentState == IF stateOf(sd) = "" THEN "MAIN_MENU" ELSE stateOf(sd)
  IN CASE currentState = "MAIN_MENU" -> handleMainMenuCallback(w1, u, t)
       [] currentState = "POSTING_REVIEW" ->
            IF dataOf(sd).waitingForReviewText
              THEN handleReviewTextInput(w1, u, text, t) ELSE w1
       [] currentState = "COLLECTING_NAME" -> handleNameInput(w1, u, text, t)
       [] currentState = "COLLECTING_PROMOTION" -> handlePromotionInput(w1, u, text, t)
       [] currentState = "EDITING_REVIEW_TEXT" -> editHandleTextInput(w1, u, text, t)
       [] OTHER -> Send(w1, "sendMessage", "unknown_input"))

CommandTexts == {"/start", "/help", "/foo"}

\* routeCommand that takes every unknown command for /start
routeCommandDefaultStart(w, u, text, t) ==
  CASE text.v = "/help" -> handleHelpCommand(w, u, t)
    [] OTHER -> handleStartCommand(w, u, t)

\* routeCommand: commandRoutes.get(command)
routeCommand(w, u, text, t) ==
  CASE text.v = "/start" -> handleStartCommand(w, u, t)
    [] text.v = "/help" -> handleHelpCommand(w, u, t)
    [] OTHER -> Send(w, "sendMessage", "unknown_command")

handleMessage(w, u, text, t) ==
  IF textLength(text) = 0 THEN w
  ELSE IF text.v \in CommandTexts THEN routeCommand(w, u, text, t)
  ELSE handleTextInput(w, u, text, t)

\* route.handler(userId, chatId, data, messageId) for the route whose handler
\* is h; sendUnknownCallbackMessage when there is none
callbackHandler(w, u, h, data, t) ==
  CASE h = "handleHelpCallback" -> Send(w, "sendMessage", "help")
    [] h = "handleMainMenuCallback" -> handleMainMenuCallback(w, u, t)
    [] h = "handleBrowseCategoriesCallback" -> handleBrowseCategoriesCallback(w, u, t)
    [] h = "handlePostReviewCallback" -> handlePostReviewCallback(w, u, t)
    [] h = "handleCategoryCallback" -> handleCategoryCallback(w, u, data, t)
    [] h = "handleCourseCallback" -> handleCourseCallback(w, u, data, t)
    [] h = "handleBackCallback" -> handleBackCallback(w, u, data, t)
    [] h = "handleReviewsPageCallback" -> handleReviewsPageCallback(w, u, data, t)
    [] h = "handleViewReviewsCallback" -> handleViewReviewsCallback(w, u, data, t)
    [] h = "handleVoteCallback" -> handleVoteCallback(w, u, data, t)
    [] h = "handleCourseDetailsCallback" -> handleCourseDetailsCallback(w, u, data, t)
    [] h = "handleCoursesPageCallback" -> handleCoursesPageCallback(w, u, data, t)
    [] h = "handleCategoriesPageCallback" -> handleCategoriesPageCallback(w, u, data, t)
    [] h = "handleReviewCategoryCallback" -> handleReviewCategoryCallback(w, u, data, t)
    [] h = "handleReviewCourseCallback" -> handleReviewCourseCallback(w, u, data, t)
    [] h = "handleRatingCallback" -> handleRatingCallback(w, u, data, t)
    [] h = "handleAnonymityCallback" -> handleAnonymityCallback(w, u, data, t)
    [] h = "handleConfirmReviewCallback" -> handleConfirmReviewCallback(w, u, t)
    [] h = "handleCancelReviewCallback" -> handleCancelReviewCallback(w, u, t)
    [] h = "handleEditReviewCallback" -> editHandleEditReviewCallback(w, u, data, t)
    [] h = "handleEditRatingCallback" -> editHandleEditRatingCallback(w, u, data, t)
    [] h = "handleSetRatingCallback" -> editHandleSetRatingCallback(w, u, data, t)
    [] h = "handleEditTextCallback" -> editHandleEditTextCallback(w, u, data, t)
    [] h = "handleEditAnonymousCallback" -> editHandleEditAnonymousCallback(w, u, data, t)
    [] h = "handleSaveReviewCallback" -> editHandleSaveReviewCallback(w, u, data, t)
    [] h = "handleCancelEditCallback" -> editHandleCancelEditCallback(w, u, data, t)
    [] h = "handleSkipTextReviewCallback" -> handleSkipTextReviewCallback(w, u, t)
    [] h = "handleAddTextReviewCallback" -> handleAddTextReviewCallback(w, u, t)
    [] h = "handleEditCurrentReviewCallback" -> handleEditCurrentReviewCallback(w, u, t)
    [] h = "handleMyReviewsCallback" -> handleMyReviewsCallback(w, u, data, t)
    [] h = "handleManageReviewCallback" -> handleManageReviewCallback(w, u, data, t)
    [] h = "handleDeleteReviewCallback" -> handleDeleteReviewCallback(w, u, data, t)
    [] h = "handleConfirmDeleteReviewCallback" ->
         handleConfirmDeleteReviewCallback(w, u, data, t)
    [] h = "handleWriteReviewCallback" -> handleWriteReviewCallback(w, u, data, t)
    [] h = "handleEditAnonymityCallback" -> handleEditAnonymityCallback(w, u, t)
    [] h = "handleEditReviewTextCallback" -> handleEditReviewTextCallback(w, u, t)
    [] h = "handleRemoveReviewTextCallback" -> handleRemoveReviewTextCallback(w, u, t)
    [] OTHER -> Send(w, "sendMessage", "unknown_callback")

\* the handler of the first route that matches the data
handlerOf(data) == IF data \in DOMAIN routeOf THEN routeOf[data] ELSE routeHandler(data)

\* handleCallbackQuery: nothing without data; else the query is answered and
\* then the handler of the first matching route runs
handleCallbackQuery(w, u, data, t) ==
  IF data = <<>> THEN w
  ELSE callbackHandler(AnswerCallbackQuery(w), u, handlerOf(data), data, t)

\* processUpdate: renewSession, then the message or the callback query; what
\* they throw is caught and answered with the general error message
processUpdate(w, u, update, t) ==
      After(RenewSession(w, u, t), LAMBDA w1 :
     catch(IF update.kind = "message" THEN handleMessage(w1, u, update.text, t)
           ELSE handleCallbackQuery(w1, u, update.data, t),
           "error: An error occurred while processing your request."))

(***************************************************************************)
(* The calls in flight as steps of the model                               *)
(***************************************************************************)
\* what the tables and the maps hold
Snapshot ==
  [states |-> states, now |-> now, reviews |-> reviews, votes |-> votes,
   profiles |-> profiles, editingReviews |-> editingReviews]

\* the jobs: an update to process, or a call of a service or a repository
UpdateJob(u, update) == [update |-> update, kind |-> "processUpdate", user |-> u]
CallbackJob(u, data) == [kind |-> "handleCallbackQuery", user |-> u, data |-> data]
CreateJob(u, c, ratings, text) ==
  [kind |-> "createReview", user |-> u, courseId |-> c, ratings |-> ratings, text |-> text]
DeleteJob(u, r) == [kind |-> "deleteReview", user |-> u, reviewId |-> r]
VoteJob(u, r, voteType) ==
  [kind |-> "voteOnReview", user |-> u, reviewId |-> r, voteType |-> voteType]
CastJob(u, r, voteType) ==
  [kind |-> "castVote", user |-> u, reviewId |-> r, voteType |-> voteType]

\* a message has no messageId to edit, a callback query has one
hasMessageId(job) ==
  IF job.kind = "processUpdate" THEN job.update.kind = "callback_query" ELSE TRUE

\* the code of a job, run over w at time t
Run(job, w, t) ==
  CASE job.kind = "processUpdate" -> processUpdate(w, job.user, job.update, t)
    [] job.kind = "handleCallbackQuery" -> handleCallbackQuery(w, job.user, job.data, t)
    [] job.kind = "createReview" ->
         createReview(w, job.user, job.courseId, job.ratings, job.text, FALSE)
    [] job.kind = "deleteReview" -> deleteReview(w, job.reviewId, job.user)
    [] job.kind = "voteOnReview" -> voteOnReview(w, job.user, job.reviewId, job.voteType)
    [] job.kind = "castVote" -> castVote(w, job.user, job.reviewId, job.voteType)

\* the job may store a new review
mayCreate(job) ==
  \/ job.kind = "createReview"
  \/ job.kind = "processUpdate" /\ job.update.kind = "callback_query"
     /\ job.update.data = <<"confirm", "review">>

\* there is an id left for every review the calls in flight may store
idsLeftFor(job) ==
  ~mayCreate(job) \/
  Cardinality({r \in ReviewIds : reviews[r].present})
    + Cardinality({q \in Procs : calls[q].pc = "run" /\ mayCreate(calls[q].job)})
    < Cardinality(ReviewIds)

inFlight(p) == calls[p].pc = "run"

\* the call of process p goes on from frame: the operation it waits for is
\* answered (none when it starts), and it runs up to its next await or its
\* end; Landed is the world it leaves
Landed(frame, started, fails) ==
  Run(frame.job,
      [World EXCEPT !.log = frame.log, !.released = started, !.atomic = FALSE,
                    !.fails = fails, !.hold = frame.hold,
                    !.mid = hasMessageId(frame.job)],
      now)

\* the same when the call waits for several deletes of votes and the store
\* answers that of v
LandedFirst(frame, v) ==
  Run(frame.job,
      [World EXCEPT !.log = frame.log, !.released = FALSE, !.atomic = FALSE,
                    !.fails = FALSE, !.hold = frame.hold,
                    !.mid = hasMessageId(frame.job), !.first = v],
      now)

\* another call has been in flight while the call of p was
overlapped(p, frame) == frame.overlap \/ \E q \in Procs \ {p} : inFlight(q)

\* the tables, the maps and the calls in flight after the call of p went on to w
StepTo(p, frame, w) ==
  /\ states' = w.states
  /\ reviews' = w.reviews
  /\ votes' = w.votes
  /\ profiles' = w.profiles
  /\ editingReviews' = w.editingReviews
  /\ calls' = [q \in Procs |->
       IF q = p
         THEN IF w.mode = "suspended"
                THEN [frame EXCEPT !.log = w.log, !.at = w.at, !.hold = w.hold,
                                   !.overlap = overlapped(p, frame),
                                   !.began = IF overlapped(p, frame) THEN Null ELSE @]
                ELSE NoCallInFlight
       ELSE IF ~inFlight(q) THEN calls[q]
       ELSE [calls[q] EXCEPT
               !.overlap = TRUE,
               !.began = Null,
               !.hold = IF @.status = "live" /\ @.user \in w.dropped
                          THEN [user |-> @.user, status |-> "frozen",
                                ratings |-> editingReviews[@.user].ratings]
                          ELSE @]]
  /\ timers' = timers

\* what a call that ended in w is known to have done
Returned(p, frame, w) ==
  [op |-> frame.job.kind, log |-> w.log, sent |-> w.sent,
   markup |-> w.markup, job |-> frame.job, overlap |-> overlapped(p, frame),
   began |-> IF overlapped(p, frame) THEN Null ELSE frame.began,
   proc |-> p, reply |-> lastOf(w.sent),
   err |-> w.thrown]

\* the call of p went on to w: it waits again, or it has returned
StepWith(p, frame, w) ==
  /\ StepTo(p, frame, w)
  /\ ret' = IF w.mode = "suspended" THEN [op |-> "await"] ELSE Returned(p, frame, w)

Step(p, frame, started, fails) == StepWith(p, frame, Landed(frame, started, fails))

\* the frame of a call that starts
NewFrame(job) ==
  [pc |-> "run", log |-> <<>>, at |-> "start", hold |-> NoHold,
   job |-> job, overlap |-> FALSE, began |-> Snapshot]

\* process p takes up a job and runs it up to its first await
Start(p, job) ==
  /\ ~inFlight(p)
  /\ idsLeftFor(job)
  /\ Step(p, NewFrame(job), TRUE, FALSE)

\* the operation process p waits for is answered; the update of a course is
\* the one that may fail
Resume(p, fails) ==
  /\ inFlight(p)
  /\ fails => calls[p].at = "update courses"
  /\ Step(p, calls[p], FALSE, fails)

(***************************************************************************)
(* The calls as actions: a call starts and runs up to its first await; the *)
(* store or the bot answers the operation a call waits for                 *)
(***************************************************************************)
\* the operation process p waits for is answered and p runs on
Answer(p) ==
  /\ Resume(p, FALSE)
  /\ UNCHANGED <<now, gateVars>>

\* the store fails the update of the course process p waits for
AnswerFails(p) ==
  /\ Resume(p, TRUE)
  /\ UNCHANGED <<now, gateVars>>

\* of the deletes of votes process p waits for (Promise.all), the store
\* answers that of v, whether or not the vote is still stored
AnswerDelete(p, v) ==
  /\ inFlight(p)
  /\ calls[p].at = "delete votes"
  /\ LandedFirst(calls[p], v).log[Len(calls[p].log) + 1] = v
  /\ StepWith(p, calls[p], LandedFirst(calls[p], v))
  /\ UNCHANGED <<now, gateVars>>

\* process p is given an update of user u: processUpdate is called
ProcessUpdate(p, u, update) ==
  /\ Start(p, UpdateJob(u, update))
  /\ UNCHANGED <<now, gateVars>>

\* an update of user u arrives while no other is being handled
FirstUpdate(u, update) ==
  /\ \A q \in Procs : ~inFlight(q)
  /\ ProcessUpdate("p", u, update)

\* an update of user u arrives while process p is handling another one, and
\* process q is given it
SecondUpdate(u, update) ==
  /\ inFlight("p")
  /\ ProcessUpdate("q", u, update)

(***************************************************************************)
(* handleCallbackQuery over every kind of callback data                    *)
(***************************************************************************)
\* a callback query of user u1 has arrived; nobody has a session
RouteInit ==
  /\ \E data \in CallbackData : ret = [op |-> "callback_query", data |-> data]
  /\ StoreIdle
  /\ GateIdle
  /\ inv = [i \in Invs |-> IdleInv]
  /\ DataIdle

\* handleCallbackQuery is called with the query that arrived
HandleCallbackQuery ==
  /\ ret.op = "callback_query"
  /\ Start("p", CallbackJob("u1", ret.data))
  /\ UNCHANGED <<now, gateVars>>

RouteNext == HandleCallbackQuery \/ Answer("p")

SpecRoute == RouteInit /\ [][RouteNext]_vars

(***************************************************************************)
(* The review and vote services driven call by call                        *)
(***************************************************************************)
VoteTypes == {"up", "down"}
SampleRatings == [overall |-> 4, quality |-> 4, difficulty |-> 3]

VoteInit ==
  /\ DataIdle
  /\ StoreIdle
  /\ GateIdle
  /\ inv = [i \in Invs |-> IdleInv]
  /\ ret = NoCall

CreateReviewCall(p, u, c) ==
  /\ Start(p, CreateJob(u, c, SampleRatings, ""))
  /\ UNCHANGED <<now, gateVars>>

DeleteReviewCall(p, r, u) ==
  /\ Start(p, DeleteJob(u, r))
  /\ UNCHANGED <<now, gateVars>>

VoteOnReviewCall(p, u, r, voteType) ==
  /\ Start(p, VoteJob(u, r, voteType))
  /\ UNCHANGED <<now, gateVars>>

\* the calls made: u1 writes reviews of c1, both users delete r1 and vote on it
VoteNext ==
  \/ \E p \in Procs, c \in Courses : CreateReviewCall(p, "u1", c)
  \/ \E p \in Procs, u \in Users : DeleteReviewCall(p, "r1", u)
  \/ \E p \in Procs, u \in Users, t \in VoteTypes : VoteOnReviewCall(p, u, "r1", t)
  \/ \E p \in Procs : Answer(p)

SpecVote == VoteInit /\ [][VoteNext]_vars

(***************************************************************************)
(* castVote calls that overlap                                             *)
(***************************************************************************)
CastInit ==
  /\ DataIdle
  /\ StoreIdle
  /\ GateIdle
  /\ inv = [i \in Invs |-> IdleInv]
  /\ ret = NoCall

CastVoteCall(p, u, r, voteType) ==
  /\ Start(p, CastJob(u, r, voteType))
  /\ UNCHANGED <<now, gateVars>>

CastNext ==
  \/ \E p \in Procs, u \in Users, t \in VoteTypes : CastVoteCall(p, u, "r1", t)
  \/ \E p \in Procs : Answer(p)

SpecCast == CastInit /\ [][CastNext]_vars

(***************************************************************************)
(* Overlapping createReview calls                                          *)
(***************************************************************************)
CreateInit ==
  /\ DataIdle
  /\ StoreIdle
  /\ GateIdle
  /\ inv = [i \in Invs |-> IdleInv]
  /\ ret = NoCall

CreateNext ==
  \/ \E p \in Procs, u \in Users, c \in Courses : CreateReviewCall(p, u, c)
  \/ \E p \in Procs : Answer(p)
  \/ \E p \in Procs : AnswerFails(p)

SpecCreate == CreateInit /\ [][CreateNext]_vars

(***************************************************************************)
(* deleteReview while a vote on the same review is in flight               *)
(***************************************************************************)
RaceInit ==
  /\ StoreIdle
  /\ GateIdle
  /\ inv = [i \in Invs |-> IdleInv]
  /\ reviews = [r \in ReviewIds |->
       IF r = "r1"
         THEN [present |-> TRUE, userId |-> "u1", isDeleted |-> FALSE,
               courseId |-> "c1", ratings |-> SampleRatings, text |-> "",
               anonymous |-> FALSE]
         ELSE NoReview]
  /\ \E voted \in SUBSET (Voters \ {"u1"}) :
       votes = [v \in VoteIds |->
         IF v[1] \in voted /\ v = generateVoteId(v[1], "r1")
           THEN [present |-> TRUE, reviewId |-> "r1", userId |-> v[1], voteType |-> "up"]
           ELSE NoVote]
  /\ profiles = [u \in Users |-> NoUser]
  /\ editingReviews = [u \in Users |-> NoDraft]
  /\ calls = [p \in Procs |-> NoCallInFlight]
  /\ timers = NoTimers
  /\ ret = NoCall

RaceNext ==
  \/ \E p \in Procs, u \in Users, t \in VoteTypes : VoteOnReviewCall(p, u, "r1", t)
  \/ \E p \in Procs, u \in Users : DeleteReviewCall(p, "r1", u)
  \/ \E p \in Procs : Answer(p)
  \/ \E p \in Procs, v \in VoteIds : AnswerDelete(p, v)

SpecRace == RaceInit /\ [][RaceNext]_vars

(***************************************************************************)
(* One user's conversation, update by update                               *)
(***************************************************************************)
SessionUsers == {"u1"}
SessionTickSteps == {31}

TextInputs ==
  {[v |-> "bx25", len |-> 4], [v |-> "/start", len |-> 6]}

\* the buttons tapped in the conversation
SessionTaps ==
  {<<"main", "menu">>, <<"browse", "categories">>, <<"post", "review">>,
   <<"category", "CSE">>, <<"course", "c1">>, <<"review", "category", "CSE">>,
   <<"review", "course", "c1">>, <<"rating", "overall", "4">>, <<"my", "reviews">>,
   <<"cancel", "review">>, <<"write", "review", "c1">>}

Updates ==
  {[kind |-> "message", text |-> x] : x \in TextInputs}
    \cup {[kind |-> "callback_query", data |-> d] : d \in SessionTaps}

\* the updates that arrive while another update of the user is being handled
SecondUpdates ==
  {[kind |-> "message", text |-> [v |-> "bx25", len |-> 4]],
   [kind |-> "callback_query", data |-> <<"main", "menu">>]}

\* the tables hold a review written earlier by another user
SessionInit ==
  /\ states = [u \in Users |-> NoSession]
  /\ now = 0
  /\ reviews = [r \in ReviewIds |->
       IF r = "r2" THEN [present |-> TRUE, userId |-> "u2", isDeleted |-> FALSE,
                         courseId |-> "c1", ratings |-> SampleRatings, text |-> "",
                         anonymous |-> FALSE]
       ELSE NoReview]
  /\ votes = [v \in VoteIds |-> NoVote]
  /\ profiles = [u \in Users |->
       IF u = "u2" THEN [present |-> TRUE, name |-> "", promotion |-> ""] ELSE NoUser]
  /\ editingReviews = [u \in Users |-> NoDraft]
  /\ calls = [p \in Procs |-> NoCallInFlight]
  /\ timers = NoTimers
  /\ ret = NoCall
  /\ GateIdle
  /\ inv = [i \in Invs |-> IdleInv]

\* the session of u is stored but its inactivity window has passed
staleSession(map, u, t) == map[u].present /\ sessionExpired(map[u], t)

SessionNext ==
  \/ \E u \in SessionUsers, update \in Updates : FirstUpdate(u, update)
  \/ \E u \in SessionUsers, update \in SecondUpdates : SecondUpdate(u, update)
  \/ \E p \in Procs : Answer(p)
  \/ \E d \in SessionTickSteps : Tick(d)

SpecSession == SessionInit /\ [][SessionNext]_vars

(***************************************************************************)
(* Editing and posting a review, update by update, over a stored review    *)
(***************************************************************************)
DraftUpdates ==
  {[kind |-> "message", text |-> x] :
     x \in {[v |-> "-", len |-> 1], [v |-> "new", len |-> 3],
            [v |-> "x2001", len |-> 2001], [v |-> "/start", len |-> 6]}}
    \cup {[kind |-> "callback_query", data |-> d] : d \in DraftCallbacks}

\* what the reviews table may hold for the user's review: the table is also
\* written outside ReviewService, so out-of-range values are among them
StoredDrafts ==
  {[ratings |-> SampleRatings, text |-> "bx25"],
   [ratings |-> SampleRatings, text |-> "x2001"],
   [ratings |-> [overall |-> 0, quality |-> 4, difficulty |-> 6], text |-> ""]}

DraftInit ==
  /\ states = [u \in Users |-> NoSession]
  /\ now = 0
  /\ \E stored \in StoredDrafts :
       reviews = [r \in ReviewIds |->
         IF r = "r1" THEN [present |-> TRUE, userId |-> "u1", isDeleted |-> FALSE,
                           courseId |-> "c1", ratings |-> stored.ratings,
                           text |-> stored.text, anonymous |-> FALSE]
         ELSE NoReview]
  /\ votes = [v \in VoteIds |-> NoVote]
  /\ profiles = [u \in Users |->
       IF u = "u1" THEN [present |-> TRUE, name |-> "", promotion |-> ""] ELSE NoUser]
  /\ editingReviews = [u \in Users |-> NoDraft]
  /\ calls = [p \in Procs |-> NoCallInFlight]
  /\ timers = NoTimers
  /\ ret = NoCall
  /\ GateIdle
  /\ inv = [i \in Invs |-> IdleInv]

\* the updates that arrive while a save or a text of the user is being handled
SecondDraftUpdates ==
  {[kind |-> "message", text |-> [v |-> "new", len |-> 3]],
   [kind |-> "callback_query", data |-> <<"set", "rating", "r1", "overall", "5">>],
   [kind |-> "callback_query", data |-> <<"cancel", "edit", "r1">>]}

DraftNext ==
  \/ \E u \in SessionUsers, update \in DraftUpdates : FirstUpdate(u, update)
  \/ \E u \in SessionUsers, update \in SecondDraftUpdates : SecondUpdate(u, update)
  \/ \E p \in Procs : Answer(p)
  \/ \E p \in Procs : AnswerFails(p)

SpecDraft == DraftInit /\ [][DraftNext]_vars

\* posting: the stored review is the user's own or somebody else's
PostInit ==
  /\ states = [u \in Users |-> NoSession]
  /\ now = 0
  /\ \E owner \in Users :
       /\ reviews = [r \in ReviewIds |->
            IF r = "r1" THEN [present |-> TRUE, userId |-> owner, isDeleted |-> FALSE,
                              courseId |-> "c1", ratings |-> SampleRatings,
                              text |-> "", anonymous |-> FALSE]
            ELSE NoReview]
       /\ profiles = [u \in Users |->
            IF u = owner THEN [present |-> TRUE, name |-> "", promotion |-> ""]
            ELSE NoUser]
  /\ votes = [v \in VoteIds |-> NoVote]
  /\ editingReviews = [u \in Users |-> NoDraft]
  /\ calls = [p \in Procs |-> NoCallInFlight]
  /\ timers = NoTimers
  /\ ret = NoCall
  /\ GateIdle
  /\ inv = [i \in Invs |-> IdleInv]

\* the taps that arrive while another tap of the user is being handled
SecondPostCallbacks == {<<"confirm", "review">>, <<"main", "menu">>}

PostNext ==
  \/ \E u \in SessionUsers, d \in PostCallbacks :
       FirstUpdate(u, [kind |-> "callback_query", data |-> d])
  \/ \E u \in SessionUsers, d \in SecondPostCallbacks :
       SecondUpdate(u, [kind |-> "callback_query", data |-> d])
  \/ \E p \in Procs : Answer(p)
  \/ \E p \in Procs : AnswerFails(p)

SpecPost == PostInit /\ [][PostNext]_vars

(***************************************************************************)
(* A confirm whose createReview is in flight while other updates are       *)
(* handled                                                                 *)
(***************************************************************************)
SecondConfirmCallbacks == {<<"cancel", "review">>, <<"main", "menu">>}

ConfirmNext ==
  \/ \E u \in SessionUsers, d \in PostCallbacks \cup {<<"cancel", "review">>} :
       FirstUpdate(u, [kind |-> "callback_query", data |-> d])
  \/ \E u \in SessionUsers, d \in SecondConfirmCallbacks :
       SecondUpdate(u, [kind |-> "callback_query", data |-> d])
  \/ \E p \in Procs : Answer(p)
  \/ \E p \in Procs : AnswerFails(p)

SpecConfirm == PostInit /\ [][ConfirmNext]_vars

(***************************************************************************)
(* Updates handled from every kind of session: browsing, posting, editing, *)
(* expired, absent                                                         *)
(***************************************************************************)
\* the updates that lead back to the main menu
HomeUpdates ==
  {[kind |-> "message", text |-> [v |-> "/start", len |-> 6]],
   [kind |-> "callback_query", data |-> <<"main", "menu">>],
   [kind |-> "callback_query", data |-> <<"cancel", "review">>]}

WalkUpdates ==
  HomeUpdates \cup {[kind |-> "message", text |-> [v |-> "bx25", len |-> 4]],
                    [kind |-> "message", text |-> [v |-> "/foo", len |-> 4]]}
    \cup {[kind |-> "callback_query", data |-> d] :
            d \in {<<"noop">>, <<"browse", "courses">>, <<"browse", "categories">>, <<"category", "CSE">>, <<"course", "c1">>,
                   <<"write", "review", "c1">>, <<"rating", "overall", "4">>,
                   <<"my", "reviews">>, <<"edit", "review", "r1">>,
                   <<"edit", "text", "r1">>}}

\* the updates that arrive while another update of the user is being handled
SecondWalkUpdates ==
  {[kind |-> "callback_query", data |-> d] :
     d \in {<<"browse", "categories">>, <<"write", "review", "c1">>}}

WalkNext ==
  \/ \E u \in SessionUsers, update \in WalkUpdates : FirstUpdate(u, update)
  \/ \E u \in SessionUsers, update \in SecondWalkUpdates : SecondUpdate(u, update)
  \/ \E p \in Procs : Answer(p)
  \/ \E d \in SessionTickSteps : Tick(d)

SpecWalk == PostInit /\ [][WalkNext]_vars

(***************************************************************************)
(* Browsing to a course and posting a review of it, the store answering    *)
(* every call                                                              *)
(***************************************************************************)
TourUpdates ==
  {[kind |-> "message", text |-> x] :
      x \in {[v |-> "/start", len |-> 6], [v |-> "ok", len |-> 2]}}
    \cup {[kind |-> "callback_query", data |-> d] :
            d \in {<<"category", "CSE">>, <<"course", "c1">>, <<"write", "review", "c1">>,
                   <<"rating", "overall", "4">>, <<"rating", "quality", "4">>,
                   <<"rating", "difficulty", "3">>, <<"add", "text", "review">>,
                   <<"review", "anonymous", "no">>, <<"confirm", "review">>}}

\* the update that arrives while another update of the user is being handled
SecondTourUpdates ==
  {[kind |-> "callback_query", data |-> <<"confirm", "review">>]}

TourNext ==
  \/ \E u \in SessionUsers, update \in TourUpdates : FirstUpdate(u, update)
  \/ \E u \in SessionUsers, update \in SecondTourUpdates : SecondUpdate(u, update)
  \/ \E p \in Procs : Answer(p)

\* the user has given a name and a promotion earlier; the stored review is the
\* user's own or somebody else's
TourInit ==
  /\ states = [u \in Users |-> NoSession]
  /\ now = 0
  /\ \E owner \in Users :
       /\ reviews = [r \in ReviewIds |->
            IF r = "r1" THEN [present |-> TRUE, userId |-> owner, isDeleted |-> FALSE,
                              courseId |-> "c1", ratings |-> SampleRatings,
                              text |-> "", anonymous |-> FALSE]
            ELSE NoReview]
       /\ profiles = [u \in Users |->
            IF u \in SessionUsers THEN [present |-> TRUE, name |-> "ok", promotion |-> "BX25"]
            ELSE IF u = owner THEN [present |-> TRUE, name |-> "", promotion |-> ""]
            ELSE NoUser]
  /\ votes = [v \in VoteIds |-> NoVote]
  /\ editingReviews = [u \in Users |-> NoDraft]
  /\ calls = [p \in Procs |-> NoCallInFlight]
  /\ timers = NoTimers
  /\ ret = NoCall
  /\ GateIdle
  /\ inv = [i \in Invs |-> IdleInv]

SpecTour == TourInit /\ [][TourNext]_vars

(***************************************************************************)
(* One user editing a stored review while another posts one, with ratings  *)
(* and texts in and out of range                                           *)
(***************************************************************************)
\* what the user who posts sends, and what the user who edits r1 sends
PostingUpdates ==
  {[kind |-> "message", text |-> x] :
      x \in {[v |-> "new", len |-> 3], [v |-> "x2001", len |-> 2001]}}
    \cup {[kind |-> "callback_query", data |-> d] :
            d \in {<<"rating", "overall", "5">>, <<"rating", "overall", "12">>,
                   <<"add", "text", "review">>, <<"confirm", "review">>}}
EditingUpdates ==
  {[kind |-> "message", text |-> x] :
      x \in {[v |-> "-", len |-> 1], [v |-> "new", len |-> 3], [v |-> "x2001", len |-> 2001]}}
    \cup {[kind |-> "callback_query", data |-> d] :
            d \in {<<"edit", "review", "r1">>, <<"set", "rating", "r1", "overall", "5">>,
                   <<"edit", "text", "r1">>, <<"save", "review", "r1">>}}

\* the review r1 of u1 as the table holds it: in range, or written outside
\* ReviewService with ratings out of range or with a quality of 4.5
StoredReviews ==
  {[r \in ReviewIds |->
      IF r = "r1" THEN [present |-> TRUE, userId |-> "u1", isDeleted |-> FALSE,
                        courseId |-> "c1", ratings |-> ratings, text |-> "x2001",
                        anonymous |-> FALSE]
      ELSE NoReview] :
     ratings \in {SampleRatings, [overall |-> 0, quality |-> 4, difficulty |-> 6],
                 [overall |-> 4, quality |-> Half + 4, difficulty |-> 3]}}

\* either u1 has a stored review and nobody a session, or the table is empty
\* and u2 has tapped write_review_c1, which stored u2's users item, and the
\* three ratings 4, 4 and 3
WriteInit ==
  /\ \/ /\ states = [u \in Users |-> NoSession]
        /\ reviews \in StoredReviews
        /\ profiles = [u \in Users |->
             IF u = "u1" THEN [present |-> TRUE, name |-> "", promotion |-> ""]
             ELSE NoUser]
     \/ /\ states = setState([u \in Users |-> NoSession], "u2", "POSTING_REVIEW",
                              [EmptyData EXCEPT !.step = "text_input", !.courseId = "c1",
                                                !.hasRatings = TRUE,
                                                !.ratings = SampleRatings],
                              0)
        /\ reviews = [r \in ReviewIds |-> NoReview]
        /\ profiles = [u \in Users |-> [present |-> TRUE, name |-> "", promotion |-> ""]]
  /\ now = 0
  /\ votes = [v \in VoteIds |-> NoVote]
  /\ editingReviews = [u \in Users |-> NoDraft]
  /\ calls = [p \in Procs |-> NoCallInFlight]
  /\ timers = NoTimers
  /\ ret = NoCall
  /\ GateIdle
  /\ inv = [i \in Invs |-> IdleInv]

\* the taps that arrive while another update is being handled
SecondPostingUpdates == {[kind |-> "callback_query", data |-> <<"confirm", "review">>]}
SecondEditingUpdates ==
  {[kind |-> "callback_query", data |-> d] :
     d \in {<<"save", "review", "r1">>, <<"set", "rating", "r1", "overall", "5">>}}

\* u2 posts and u1 edits
WriteNext ==
  \/ \E update \in PostingUpdates : FirstUpdate("u2", update)
  \/ \E update \in EditingUpdates : FirstUpdate("u1", update)
  \/ \E update \in SecondPostingUpdates : SecondUpdate("u2", update)
  \/ \E update \in SecondEditingUpdates : SecondUpdate("u1", update)
  \/ \E p \in Procs : Answer(p)
  \/ \E p \in Procs : AnswerFails(p)

SpecWrite == WriteInit /\ [][WriteNext]_vars

(***************************************************************************)
(* Edit, delete and vote on a review that is missing or soft-deleted       *)
(***************************************************************************)
GoneUpdates ==
  {[kind |-> "callback_query", data |-> d] :
     d \in {<<"main", "menu">>, <<"my", "reviews">>, <<"browse", "categories">>,
            <<"course", "c1">>, <<"edit", "review", "r1">>,
            <<"confirm", "delete", "r1">>, <<"vote", "r1", "up">>}}

\* r1 is not in the table, or is there, soft-deleted or not, as the review
\* of either user
GoneInit ==
  /\ states = [u \in Users |-> NoSession]
  /\ now = 0
  /\ \/ reviews = [r \in ReviewIds |-> NoReview]
     \/ \E owner \in Users, isDeleted \in BOOLEAN :
          reviews = [r \in ReviewIds |->
            IF r = "r1" THEN [present |-> TRUE, userId |-> owner, isDeleted |-> isDeleted,
                              courseId |-> "c1", ratings |-> SampleRatings,
                              text |-> "", anonymous |-> FALSE]
            ELSE NoReview]
  /\ votes = [v \in VoteIds |-> NoVote]
  /\ profiles = [u \in Users |-> [present |-> TRUE, name |-> "", promotion |-> ""]]
  /\ editingReviews = [u \in Users |-> NoDraft]
  /\ calls = [p \in Procs |-> NoCallInFlight]
  /\ timers = NoTimers
  /\ ret = NoCall
  /\ GateIdle
  /\ inv = [i \in Invs |-> IdleInv]

GoneNext ==
  \/ \E u \in SessionUsers, update \in GoneUpdates : FirstUpdate(u, update)
  \/ \E u \in SessionUsers, update \in GoneUpdates : SecondUpdate(u, update)
  \/ \E p \in Procs : Answer(p)

SpecGone == GoneInit /\ [][GoneNext]_vars

(***************************************************************************)
(* The confirmation of a delete                                            *)
(***************************************************************************)
\* r1 and r2 are in the table, each the review of one of the users
DeleteInit ==
  /\ states = [u \in Users |-> NoSession]
  /\ now = 0
  /\ \E owner \in [{"r1", "r2"} -> Users] :
       reviews = [r \in ReviewIds |->
         IF r \in DOMAIN owner
           THEN [present |-> TRUE, userId |-> owner[r], isDeleted |-> FALSE,
                 courseId |-> "c1", ratings |-> SampleRatings, text |-> "",
                 anonymous |-> FALSE]
           ELSE NoReview]
  /\ votes = [v \in VoteIds |-> NoVote]
  /\ profiles = [u \in Users |-> [present |-> TRUE, name |-> "", promotion |-> ""]]
  /\ editingReviews = [u \in Users |-> NoDraft]
  /\ calls = [p \in Procs |-> NoCallInFlight]
  /\ timers = NoTimers
  /\ ret = NoCall
  /\ GateIdle
  /\ inv = [i \in Invs |-> IdleInv]

\* a tap on a button whose callback data is confirm_delete_ followed by rest
ConfirmDeleteTap(p, u, rest) ==
  ProcessUpdate(p, u, [kind |-> "callback_query", data |-> <<"confirm", "delete">> \o rest])

DeleteNext ==
  \/ \E u \in Users, r \in {"r1", "r2"} :
       \E rest \in {<<r>>, <<"review", r>>} : ConfirmDeleteTap("p", u, rest)
  \/ \E p \in Procs : Answer(p)

SpecDelete == DeleteInit /\ [][DeleteNext]_vars

(***************************************************************************)
(* Editing when the user owns two reviews: the buttons of an older message *)
(* stay tappable, so the token of one review may arrive while the draft    *)
(* holds the other                                                         *)
(***************************************************************************)
StaleUpdates ==
  {[kind |-> "callback_query", data |-> d] :
     d \in {<<"edit", "review", "r1">>, <<"edit", "review", "r2">>,
            <<"set", "rating", "r1", "overall", "5">>, <<"edit", "anonymous", "r1">>,
            <<"edit", "text", "r1">>, <<"save", "review", "r1">>,
            <<"save", "review", "r2">>, <<"cancel", "edit", "r1">>}}
    \cup {[kind |-> "message", text |-> [v |-> "new", len |-> 3]]}

\* u1 has posted r1 on course c1 and r2 on another course
StaleInit ==
  /\ StoreIdle
  /\ GateIdle
  /\ inv = [i \in Invs |-> IdleInv]
  /\ reviews = [r \in ReviewIds |->
       IF r \in {"r1", "r2"}
         THEN [present |-> TRUE, userId |-> "u1",
               isDeleted |-> FALSE,
               courseId |-> IF r = "r1" THEN "c1" ELSE "c2",
               ratings |-> IF r = "r1" THEN SampleRatings
                           ELSE [overall |-> 2, quality |-> 2, difficulty |-> 2],
               text |-> "", anonymous |-> FALSE]
         ELSE NoReview]
  /\ votes = [v \in VoteIds |-> NoVote]
  /\ profiles = [u \in Users |->
       IF u = "u1" THEN [present |-> TRUE, name |-> "", promotion |-> ""] ELSE NoUser]
  /\ editingReviews = [u \in Users |-> NoDraft]
  /\ calls = [p \in Procs |-> NoCallInFlight]
  /\ timers = NoTimers
  /\ ret = NoCall

StaleNext ==
  \/ \E update \in StaleUpdates : ProcessUpdate("p", "u1", update)
  \/ Answer("p")

SpecStale == StaleInit /\ [][StaleNext]_vars

(***************************************************************************)
(* TimeoutHandler over the StateManager; time is counted in minutes        *)
(***************************************************************************)
WARNING_TIMEOUT_MS == 10
SESSION_TIMEOUT_MS == 15
\* getSessionTimeoutInfo: const warningThreshold = 5 * 60 * 1000
warningThreshold == 5
\* timer ids the runtime hands out
MaxTimerId == 6
\* forceTimeout calls are taken while the callback count is below this
MaxForced == 2
TimerTickSteps == {5}

Max(a, b) == IF a >= b THEN a ELSE b

\* StateManager.getSessionTimeoutInfo: Null without an entry
getSessionTimeoutInfo(map, u, t) ==
  IF ~map[u].present THEN Null
  ELSE LET timeElapsed == t - map[u].lastActivity
           timeUntilExpiry == STATE_TIMEOUT_MINUTES - timeElapsed
           timeUntilWarning == timeUntilExpiry - warningThreshold
       IN [timeUntilExpiry |-> Max(0, timeUntilExpiry),
           timeUntilWarning |-> Max(0, timeUntilWarning),
           isExpired |-> timeUntilExpiry <= 0,
           needsWarning |-> timeUntilExpiry <= warningThreshold /\ timeUntilExpiry > 0]

\* StateManager.isSessionExpired: true without an entry
isSessionExpired(map, u, t) ==
  IF ~map[u].present THEN TRUE
  ELSE t > map[u].lastActivity + STATE_TIMEOUT_MINUTES

\* TimeoutHandler.clearTimeoutTimers: clearTimeout on the two timers the maps
\* hold for the user, and the two entries deleted
clearTimeoutTimers(tm, u) ==
  LET ids == {tm.timeoutWarnings[u], tm.sessionTimeouts[u]} \ {0}
      hit == {x \in tm.set : x.id \in ids}
  IN [tm EXCEPT !.set = @ \ hit,
                !.cancelled = @ \cup {x.id : x \in hit},
                !.timeoutWarnings[u] = 0,
                !.sessionTimeouts[u] = 0]

\* the two setTimeout calls and the two map entries of startTimeoutTimers
setTimeoutTimers(tm, u, t) ==
  [tm EXCEPT !.set = @ \cup
                {[kind |-> "warning", user |-> u,
                  id |-> tm.nextId, due |-> t + WARNING_TIMEOUT_MS],
                 [kind |-> "session", user |-> u,
                  id |-> tm.nextId + 1, due |-> t + SESSION_TIMEOUT_MS]},
             !.timeoutWarnings[u] = tm.nextId,
             !.sessionTimeouts[u] = tm.nextId + 1,
             !.nextId = tm.nextId + 2]

\* startTimeoutTimers without the clearing of the existing timers
startTimeoutTimersNoClear(tm, u, t) == setTimeoutTimers(tm, u, t)

\* TimeoutHandler.startTimeoutTimers
startTimeoutTimers(tm, u, t) == setTimeoutTimers(clearTimeoutTimers(tm, u), u, t)

TimerInit ==
  /\ StoreIdle
  /\ DataIdle
  /\ GateIdle
  /\ inv = [i \in Invs |-> IdleInv]
  /\ ret = NoCall

StartTimeoutTimersCall(u) ==
  /\ timers.nextId + 1 <= MaxTimerId
  /\ timers' = startTimeoutTimers(timers, u, now)
  /\ ret' = [op |-> "startTimeoutTimers", user |-> u]
  /\ UNCHANGED <<storeVars, gateVars, reviews, votes, profiles, editingReviews, calls>>

ClearTimeoutTimersCall(u) ==
  /\ timers' = clearTimeoutTimers(timers, u)
  /\ ret' = [op |-> "clearTimeoutTimers", user |-> u]
  /\ UNCHANGED <<storeVars, gateVars, reviews, votes, profiles, editingReviews, calls>>

\* TimeoutHandler.forceTimeout: clearTimeoutTimers, stateManager.clearState,
\* then the onTimeout callback; the callback count is capped at MaxForced
ForceTimeoutCall(u) ==
  /\ timers.onTimeout[u] < MaxForced
  /\ states' = clearState(states, u)
  /\ timers' = [clearTimeoutTimers(timers, u) EXCEPT !.onTimeout[u] = @ + 1]
  /\ ret' = [op |-> "forceTimeout", user |-> u]
  /\ UNCHANGED <<now, gateVars, reviews, votes, profiles, editingReviews, calls>>

\* TimeoutHandler.renewSession: stateManager.renewSession, then startTimeoutTimers
TimeoutRenewSessionCall(u) ==
  /\ timers.nextId + 1 <= MaxTimerId
  /\ states' = renewSession(states, u, now)
  /\ timers' = startTimeoutTimers(timers, u, now)
  /\ ret' = [op |-> "renewSession", user |-> u]
  /\ UNCHANGED <<now, gateVars, reviews, votes, profiles, editingReviews, calls>>

\* the warning timer x runs: onWarning is called when the info says so
WarningTimerFires(x) ==
  /\ x \in timers.set /\ x.kind = "warning" /\ x.due <= now
  /\ LET sessionInfo == getSessionTimeoutInfo(states, x.user, now)
         invoke == IF sessionInfo = Null THEN FALSE
                   ELSE ~sessionInfo.isExpired /\ sessionInfo.needsWarning
     IN /\ timers' = [timers EXCEPT !.set = @ \ {x}, !.fired = @ \cup {x.id},
                        !.onWarning[x.user] = IF invoke THEN @ + 1 ELSE @]
        /\ ret' = [op |-> "warningTimer", invoked |-> invoke, timer |-> x]
  /\ UNCHANGED <<storeVars, gateVars, reviews, votes, profiles, editingReviews, calls>>

\* the session timer x runs up to its await of onTimeout, or, when the
\* session is not expired, to the end
SessionTimerFires(x) ==
  /\ x \in timers.set /\ x.kind = "session" /\ x.due <= now
  /\ LET isExpired == isSessionExpired(states, x.user, now)
         ran == [timers EXCEPT !.set = @ \ {x}, !.fired = @ \cup {x.id}]
     IN /\ states' = IF isExpired THEN clearState(states, x.user) ELSE states
        /\ timers' = IF isExpired
             THEN [ran EXCEPT !.onTimeout[x.user] = @ + 1, !.running = @ \cup {x}]
             ELSE clearTimeoutTimers(ran, x.user)
        /\ ret' = [op |-> "sessionTimer", expired |-> isExpired, timer |-> x]
  /\ UNCHANGED <<now, gateVars, reviews, votes, profiles, editingReviews, calls>>

\* onTimeout has returned: the finally block of the session timer x
SessionTimerFinally(x) ==
  /\ x \in timers.running
  /\ timers' = clearTimeoutTimers([timers EXCEPT !.running = @ \ {x}], x.user)
  /\ ret' = [op |-> "sessionTimerFinally", timer |-> x]
  /\ UNCHANGED <<storeVars, gateVars, reviews, votes, profiles, editingReviews, calls>>

\* TimeoutHandler.getTimeoutInfo and checkSessionExpired, beside getState
GetTimeoutInfoCall(u) ==
  /\ ret' = [op |-> "getTimeoutInfo", user |-> u,
             isSessionExpired |-> isSessionExpired(states, u, now),
             getState |-> getStateValue(states, u, now),
             info |-> getSessionTimeoutInfo(states, u, now)]
  /\ UNCHANGED <<storeVars, gateVars, dataVars>>

TimerNext ==
  \/ \E u \in SessionUsers : SetStateCall(u, "MAIN_MENU", Undefined)
  \/ \E u \in SessionUsers : StartTimeoutTimersCall(u)
  \/ \E u \in SessionUsers : ClearTimeoutTimersCall(u)
  \/ \E u \in SessionUsers : TimeoutRenewSessionCall(u)
  \/ \E u \in SessionUsers : ForceTimeoutCall(u)
  \/ \E x \in timers.set : WarningTimerFires(x)
  \/ \E x \in timers.set : SessionTimerFires(x)
  \/ \E x \in timers.running : SessionTimerFinally(x)
  \/ \E u \in SessionUsers : GetTimeoutInfoCall(u)
  \/ \E d \in TimerTickSteps : Tick(d)

SpecTimers == TimerInit /\ [][TimerNext]_vars

\* handleWebhook with the denied branch never taken
rateLimitExceededNever(rateLimitResult) == FALSE

\* handleWebhook: if (!rateLimitResult.allowed)
rateLimitExceeded(rateLimitResult) == ~rateLimitResult.allowed

(***************************************************************************)
(* WebhookHandler.handleWebhook, one invocation per in-flight update       *)
(*                                                                         *)
(* An invocation is suspended at every await on the store or the bot; a    *)
(* step applies the awaited call and runs the code that follows it up to   *)
(* the next await.  checkRateLimit takes its own today after getOrCreate   *)
(* returned, incrementCounts and resetDailyCount before their first await. *)
(***************************************************************************)
\* the counts the runs go up to
MaxCount == TotalLimit + 1

GateUpdates ==
  {[kind |-> "callback_query", data |-> d] : d \in {<<"main", "menu">>, <<"noop">>}}

\* the update handled by the second invocation
OtherUpdates == {[kind |-> "callback_query", data |-> <<"noop">>]}

\* the highest count an item carries
countOf(item) == IF item.exists THEN Max(item.dailyCount, item.totalCount) ELSE 0

\* the highest count stored or held by an invocation
highestCount ==
  LET stored == {countOf(rateLimits[u]) : u \in GateUsers}
      held == {countOf(inv[i].item) : i \in Invs}
  IN CHOOSE m \in stored \cup held : \A n \in stored \cup held : n <= m

\* the invocations that may still write an increment
mayIncrement == {i \in Invs : inv[i].pc \in {"get", "getAgain", "create", "got", "record"}}

\* an update for user u arrives and an invocation starts handling it:
\* checkRateLimit calls getOrCreate.  Updates arrive as long as the
\* increments in flight and the new one keep the counts within MaxCount.
Arrive(i, u, update) ==
  /\ UNCHANGED <<storeVars, dataVars, ret>>
  /\ inv[i].pc \in {"idle", "done"}
  /\ highestCount + Cardinality(mayIncrement) + 1 <= MaxCount
  /\ inv' = [inv EXCEPT ![i] = [IdleInv EXCEPT !.pc = "get", !.user = u,
                                               !.update = update,
                                               !.call = "checkRateLimit"]]
  /\ UNCHANGED <<rateLimits, today, resets>>

\* getOrCreate: the get is answered (the first one, or the one after a create
\* that failed); when no item is there the new item is built with the
\* current day
GetOrCreateGet(i) ==
  /\ UNCHANGED <<storeVars, dataVars, ret>>
  /\ inv[i].pc \in {"get", "getAgain"}
  /\ LET existing == rateLimits[inv[i].user]
     IN inv' = [inv EXCEPT
          ![i].item = existing,
          ![i].newDay = IF existing.exists \/ inv[i].pc = "getAgain" THEN 0 ELSE today,
          ![i].pc = IF existing.exists THEN "got"
                    ELSE IF inv[i].pc = "get" THEN "create" ELSE "done",
          ![i].routed = IF ~existing.exists /\ inv[i].pc = "getAgain"
                          THEN "Internal server error" ELSE @]
  /\ UNCHANGED <<rateLimits, today, resets>>

\* getOrCreate: the create, conditional on the item being absent, is applied
\* or fails with "already exists"
GetOrCreateCreate(i) ==
  /\ UNCHANGED <<storeVars, dataVars, ret>>
  /\ inv[i].pc = "create"
  /\ LET u == inv[i].user
     IN IF rateLimits[u].exists
          THEN /\ inv' = [inv EXCEPT ![i].pc = "getAgain", ![i].newDay = 0]
               /\ UNCHANGED rateLimits
          ELSE /\ rateLimits' = [rateLimits EXCEPT ![u] = newRateLimit(inv[i].newDay)]
               /\ inv' = [inv EXCEPT ![i].item = newRateLimit(inv[i].newDay),
                                     ![i].newDay = 0, ![i].pc = "got"]
  /\ UNCHANGED <<today, resets>>

\* checkRateLimit after getOrCreate returned, then handleWebhook's branch on
\* the result
CheckStep(i) ==
  /\ UNCHANGED <<storeVars, dataVars, ret>>
  /\ inv[i].pc = "got" /\ inv[i].call = "checkRateLimit"
  /\ LET res == checkRateLimit(inv[i].item, today)
     IN inv' = [inv EXCEPT ![i].checkDay = today, ![i].result = res,
                           ![i].pc = IF rateLimitExceeded(res) THEN "denied"
                                     ELSE afterAllowed]
  /\ UNCHANGED <<rateLimits, today, resets>>

\* the denied branch: logRateLimitViolation and sendRateLimitErrorResponse
\* are awaited, then the invocation answers 200
DeniedStep(i) ==
  /\ UNCHANGED <<storeVars, dataVars, ret>>
  /\ inv[i].pc = "denied"
  /\ inv' = [inv EXCEPT ![i].pc = "done", ![i].routed = "rate_limit_exceeded",
                        ![i].update = [kind |-> "none"], ![i].call = "none",
                        ![i].item = NoRec, ![i].checkDay = 0, ![i].result = NoResult]
  /\ UNCHANGED <<rateLimits, today, resets>>

\* recordMessage -> incrementCounts: today is taken, then getOrCreate is called
RecordStart(i) ==
  /\ UNCHANGED <<storeVars, dataVars, ret>>
  /\ inv[i].pc = "record"
  /\ inv' = [inv EXCEPT ![i].incDay = today, ![i].call = "incrementCounts",
                        ![i].item = NoRec, ![i].checkDay = 0,
                        ![i].result = NoResult, ![i].pc = "get"]
  /\ UNCHANGED <<rateLimits, today, resets>>

\* incrementCounts: update(userId, updates) writes the values computed from
\* the item getOrCreate returned
RecordWrite(i) ==
  /\ UNCHANGED <<storeVars, dataVars, ret>>
  /\ inv[i].pc = "got" /\ inv[i].call = "incrementCounts"
  /\ rateLimits' = [rateLimits EXCEPT ![inv[i].user] =
                      incrementUpdates(inv[i].item, inv[i].incDay)]
  /\ inv' = [inv EXCEPT ![i].recorded = TRUE, ![i].item = NoRec, ![i].incDay = 0,
                        ![i].pc = "process"]
  /\ UNCHANGED <<today, resets>>

\* the process an invocation runs in
procOf(i) == IF i = "a" THEN "p" ELSE "q"

\* the invocation after a step of its processUpdate that left w: still in
\* processUpdate, or ended with routed the last message the handler sent
afterProcess(i, w) ==
  IF w.mode = "suspended"
    THEN [inv EXCEPT ![i].pc = "processing"]
    ELSE [inv EXCEPT ![i].routed = lastOf(w.sent), ![i].pc = "done",
                     ![i].update = [kind |-> "none"], ![i].call = "none"]

\* the processUpdate of invocation i went on from frame to w
ProcessWith(i, frame, w) ==
  /\ StepTo(procOf(i), frame, w)
  /\ inv' = afterProcess(i, w)

\* processUpdate is called and runs up to its first await
ProcessStart(i) ==
  /\ inv[i].pc = "process"
  /\ ProcessWith(i, NewFrame(UpdateJob(inv[i].user, inv[i].update)),
                 Landed(NewFrame(UpdateJob(inv[i].user, inv[i].update)), TRUE, FALSE))
  /\ UNCHANGED <<now, ret, rateLimits, today, resets>>

\* the bot or the store answers the call processUpdate waits for
ProcessResume(i) ==
  /\ inv[i].pc = "processing"
  /\ ProcessWith(i, calls[procOf(i)], Landed(calls[procOf(i)], FALSE, FALSE))
  /\ UNCHANGED <<now, ret, rateLimits, today, resets>>

\* RateLimitService.resetDailyCount (manual reset): today is taken, then the
\* update is awaited
ResetStart(u) ==
  /\ UNCHANGED <<storeVars, dataVars, ret>>
  /\ today \notin resets[u]
  /\ resets' = [resets EXCEPT ![u] = @ \cup {today}]
  /\ UNCHANGED <<rateLimits, today, inv>>

\* the update of a resetDailyCount that took day d is applied; it stores an
\* item without totalCount when the user has none.  more tells whether
\* another call that took the same day is still in flight.
ResetWrite(u, d, more) ==
  /\ UNCHANGED <<storeVars, dataVars, ret>>
  /\ d \in resets[u]
  /\ rateLimits' = [rateLimits EXCEPT ![u] = resetUpdates(rateLimits[u], d)]
  /\ resets' = [resets EXCEPT ![u] = IF more THEN @ ELSE @ \ {d}]
  /\ UNCHANGED <<today, inv>>

\* midnight UTC passes
NextDay ==
  /\ UNCHANGED <<storeVars, dataVars, ret>>
  /\ today < MaxDay
  /\ today' = today + 1
  /\ UNCHANGED <<rateLimits, inv, resets>>

GateNext ==
  \/ \E u \in GateUsers, update \in GateUpdates : Arrive("a", u, update)
  \/ \E u \in GateUsers, update \in OtherUpdates : Arrive("b", u, update)
  \/ \E i \in Invs : GetOrCreateGet(i)
  \/ \E i \in Invs : GetOrCreateCreate(i)
  \/ \E i \in Invs : CheckStep(i)
  \/ \E i \in Invs : DeniedStep(i)
  \/ \E i \in Invs : RecordStart(i)
  \/ \E i \in Invs : RecordWrite(i)
  \/ \E i \in Invs : ProcessStart(i)
  \/ \E i \in Invs : ProcessResume(i)
  \/ \E u \in GateUsers : ResetStart(u)
  \/ \E u \in GateUsers, d \in 0..MaxDay, more \in BOOLEAN : ResetWrite(u, d, more)
  \/ NextDay

SpecGate == GateInit /\ [][GateNext]_vars

(***************************************************************************)
(* handleWebhook over a conversation: the gate, then the update            *)
(***************************************************************************)
WebhookUpdates ==
  {[kind |-> "message", text |-> x] : x \in TextInputs}
    \cup {[kind |-> "callback_query", data |-> d] :
            d \in {<<"main", "menu">>, <<"post", "review">>}}

\* the minutes that pass between two steps
WebhookTickSteps == {16}

WebhookNext ==
  \/ \E u \in SessionUsers, update \in WebhookUpdates : Arrive("a", u, update)
  \/ \E u \in SessionUsers, update \in OtherUpdates : Arrive("b", u, update)
  \/ \E i \in Invs : GetOrCreateGet(i)
  \/ \E i \in Invs : GetOrCreateCreate(i)
  \/ \E i \in Invs : CheckStep(i)
  \/ \E i \in Invs : DeniedStep(i)
  \/ \E i \in Invs : RecordStart(i)
  \/ \E i \in Invs : RecordWrite(i)
  \/ \E i \in Invs : ProcessStart(i)
  \/ \E i \in Invs : ProcessResume(i)
  \/ \E d \in WebhookTickSteps : Tick(d)
  \/ NextDay

SpecWebhook == SessionInit /\ [][WebhookNext]_vars

(***************************************************************************)
(* ReviewEditHandler: the rating keyboard and the taps on its stars        *)
(***************************************************************************)
\* how the id of the review being edited is spelled, as its "_"-separated
\* segments: plain, with "_", with "__", and ones that end or begin like the
\* rest of the token (generateReviewId gives review_<ms>_<random>)
RatingRecordIds ==
  {<<"r1">>, <<"rev", "1">>, <<"a", "", "b">>, <<"overall", "5">>, <<"set", "rating">>}
RatingTypes == {"overall", "quality", "difficulty"}

\* the template literal ${n} of a rating value
valueToString(n) == <<"1", "2", "3", "4", "5">>[n]

\* createRatingSelectionKeyboard: callback_data of the five star buttons
setRatingToken(reviewId, ratingType, n) ==
  <<"set", "rating">> \o reviewId \o <<ratingType, valueToString(n)>>

createRatingSelectionKeyboard(reviewId, ratingType) ==
  {setRatingToken(reviewId, ratingType, n) : n \in 1..5}
    \cup {<<"edit", "review">> \o reviewId, <<"cancel", "edit">> \o reviewId}

\* the star buttons of a keyboard
starButtons(keyboard) ==
  {data \in keyboard : Len(data) >= 2 /\ SubSeq(data, 1, 2) = <<"set", "rating">>}

\* user u1 is editing the stored review r1, whose id is spelled reviewId in
\* callback data, and has been sent the rating keyboard for one dimension
KeyboardInit ==
  /\ \E reviewId \in RatingRecordIds, ratingType \in RatingTypes :
       ret = [op |-> "keyboard", reviewId |-> reviewId, ratingType |-> ratingType]
  /\ reviews = [r \in ReviewIds |->
       IF r = "r1" THEN [present |-> TRUE, userId |-> "u1", isDeleted |-> FALSE,
                         courseId |-> "c1", ratings |-> SampleRatings,
                         text |-> "bx25", anonymous |-> FALSE]
       ELSE NoReview]
  /\ votes = [v \in VoteIds |-> NoVote]
  /\ profiles = [u \in Users |->
       IF u = "u1" THEN [present |-> TRUE, name |-> "", promotion |-> ""] ELSE NoUser]
  /\ editingReviews = [u \in Users |->
       IF u = "u1"
         THEN draftOf("r1", [courseId |-> "c1", ratings |-> SampleRatings,
                             text |-> "bx25", anonymous |-> FALSE])
         ELSE NoDraft]
  /\ states = [u \in Users |->
       IF u = "u1"
         THEN sessionEntry("EDITING_REVIEW", [EmptyData EXCEPT !.reviewId = "r1"], 0)
         ELSE NoSession]
  /\ now = 0
  /\ calls = [p \in Procs |-> NoCallInFlight]
  /\ timers = NoTimers
  /\ GateIdle
  /\ inv = [i \in Invs |-> IdleInv]

\* a star of the keyboard is tapped: processUpdate is called with the
\* callback query that carries its data
TapButton ==
  /\ ret.op = "keyboard"
  /\ \E data \in starButtons(createRatingSelectionKeyboard(ret.reviewId, ret.ratingType)) :
       ProcessUpdate("p", "u1", [kind |-> "callback_query", data |-> data])

KeyboardNext == TapButton \/ Answer("p")

SpecKeyboard == KeyboardInit /\ [][KeyboardNext]_vars

(***************************************************************************)
(* RetryHandler.withRetry: one call, attempt by attempt                    *)
(***************************************************************************)
\* RETRY_CONFIGS: maxAttempts of DATABASE, EMAIL, EXTERNAL_API and NETWORK;
\* none of them names a retryCondition
RETRY_CONFIGS ==
  [DATABASE |-> [maxAttempts |-> 3], EMAIL |-> [maxAttempts |-> 5],
   EXTERNAL_API |-> [maxAttempts |-> 3], NETWORK |-> [maxAttempts |-> 2]]

\* the retryConfig of ServiceWrapper.executeDatabaseOperation and
\* executeEmailOperation
ServiceWrapperConfigs ==
  [executeDatabaseOperation |->
     [maxAttempts |-> 3, retryCondition |-> "databaseRetryCondition"],
   executeEmailOperation |->
     [maxAttempts |-> 5, retryCondition |-> "emailRetryCondition"]]

\* the options withRetry is called with: retryCondition is
\* this.defaultRetryCondition when the options name none
RetryOptions ==
  {[maxAttempts |-> RETRY_CONFIGS[c].maxAttempts, retryCondition |-> "defaultRetryCondition",
    config |-> c] : c \in DOMAIN RETRY_CONFIGS}
    \cup {[maxAttempts |-> ServiceWrapperConfigs[c].maxAttempts, retryCondition |-> ServiceWrapperConfigs[c].retryCondition,
           config |-> c] :
            c \in DOMAIN ServiceWrapperConfigs}

\* what a run of the operation ends with.  A value is the result, a string,
\* an Error, an object with a code, or null; code and message are "" when
\* the value has none
Settled(shape, code, message) == [message |-> message, shape |-> shape, code |-> code]

Result == Settled("result", "", "")

\* the values the operation rejects with
OperationErrors ==
  {Settled("object", "ThrottlingException", ""),
   Settled("object", "ServiceUnavailable", ""),
   Settled("object", "ValidationException", ""),
   Settled("Error", "", "Network error"),
   Settled("Error", "", "Validation failed"),
   Settled("string", "", "Connection timeout"),
   Settled("null", "", "")}

OperationOutcomes == {Result} \cup OperationErrors

\* error.code and error.message: undefined ("") on a string
codeOf(error) == IF error.shape = "string" THEN "" ELSE error.code
messageOf(error) == IF error.shape = "string" THEN "" ELSE error.message

\* text.toLowerCase().includes(needle), over the messages of OperationErrors
includes(text, needle) ==
  <<text, needle>> \in {<<"Network error", "network">>,
                        <<"Validation failed", "validation">>,
                        <<"Connection timeout", "connection">>,
                        <<"Connection timeout", "timeout">>}

\* ErrorHandler.classifyStringError
classifyStringError(errorString) ==
  IF includes(errorString, "authentication") \/ includes(errorString, "auth")
     \/ includes(errorString, "login")
    THEN [type |-> "AUTHENTICATION_ERROR", severity |-> "MEDIUM"]
  ELSE IF includes(errorString, "permission") \/ includes(errorString, "unauthorized")
          \/ includes(errorString, "admin")
    THEN [type |-> "AUTHORIZATION_ERROR", severity |-> "MEDIUM"]
  ELSE IF includes(errorString, "validation") \/ includes(errorString, "invalid")
          \/ includes(errorString, "format")
    THEN [type |-> "VALIDATION_ERROR", severity |-> "LOW"]
  ELSE IF includes(errorString, "database") \/ includes(errorString, "dynamodb")
    THEN [type |-> "DATABASE_ERROR", severity |-> "MEDIUM"]
  ELSE IF includes(errorString, "too many failed attempts")
    THEN [type |-> "AUTHENTICATION_ERROR", severity |-> "HIGH"]
  ELSE IF includes(errorString, "rate limit") \/ includes(errorString, "too many")
    THEN [type |-> "RATE_LIMIT_ERROR", severity |-> "MEDIUM"]
  ELSE IF includes(errorString, "timeout") \/ includes(errorString, "expired")
    THEN [type |-> "TIMEOUT_ERROR", severity |-> "MEDIUM"]
  ELSE [type |-> "UNKNOWN_ERROR", severity |-> "LOW"]

\* ErrorHandler.classifyErrorObject
classifyErrorObject(error) ==
  IF includes(error.message, "too many failed attempts")
     \/ includes(error.message, "blocked")
    THEN [type |-> "AUTHENTICATION_ERROR", severity |-> "HIGH"]
  ELSE IF includes(error.message, "insufficient privileges")
          \/ includes(error.message, "admin access required")
    THEN [type |-> "AUTHORIZATION_ERROR", severity |-> "MEDIUM"]
  ELSE IF includes(error.message, "network") \/ includes(error.message, "econnreset")
          \/ includes(error.message, "timeout")
    THEN [type |-> "NETWORK_ERROR", severity |-> "MEDIUM"]
  ELSE classifyStringError(error.message)

\* ErrorHandler.classifyAWSError
classifyAWSError(error) ==
  IF error.code \in {"ProvisionedThroughputExceededException", "ThrottlingException"}
    THEN [type |-> "DATABASE_ERROR", severity |-> "MEDIUM"]
  ELSE IF error.code = "ResourceNotFoundException"
    THEN [type |-> "DATABASE_ERROR", severity |-> "LOW"]
  ELSE IF error.code = "ConditionalCheckFailedException"
    THEN [type |-> "VALIDATION_ERROR", severity |-> "LOW"]
  ELSE IF error.code \in {"Throttling", "SendingPausedException"}
    THEN [type |-> "EXTERNAL_SERVICE_ERROR", severity |-> "MEDIUM"]
  ELSE IF error.code \in {"MessageRejected", "InvalidParameterValue"}
    THEN [type |-> "VALIDATION_ERROR", severity |-> "MEDIUM"]
  ELSE IF error.code \in {"ServiceUnavailable", "InternalServerError"}
    THEN [type |-> "EXTERNAL_SERVICE_ERROR", severity |-> "HIGH"]
  ELSE IF error.code \in {"RequestTimeout", "NetworkingError"}
    THEN [type |-> "NETWORK_ERROR", severity |-> "MEDIUM"]
  ELSE [type |-> "EXTERNAL_SERVICE_ERROR", severity |-> "MEDIUM"]

\* ErrorHandler.analyzeError
analyzeError(error) ==
  IF error.shape = "null" THEN [type |-> "UNKNOWN_ERROR", severity |-> "LOW"]
  ELSE IF error.shape = "string" THEN classifyStringError(error.message)
  ELSE IF error.shape = "Error" THEN classifyErrorObject(error)
  ELSE IF error.code # "" THEN classifyAWSError(error)
  ELSE [type |-> "UNKNOWN_ERROR", severity |-> "MEDIUM"]

\* ErrorHandler.isRetryable
isRetryable(type, severity) ==
  IF severity = "CRITICAL" THEN FALSE
  ELSE IF type \in {"DATABASE_ERROR", "EXTERNAL_SERVICE_ERROR", "NETWORK_ERROR"}
    THEN severity # "HIGH"
  ELSE IF type \in {"RATE_LIMIT_ERROR", "TIMEOUT_ERROR"} THEN severity = "LOW"
  ELSE IF type \in {"AUTHENTICATION_ERROR", "AUTHORIZATION_ERROR", "VALIDATION_ERROR"}
    THEN FALSE
  ELSE severity = "LOW"

\* the TypeError of reading error.code on null
CodeOfNull == Settled("Error", "", "Cannot read properties of null (reading 'code')")

\* ErrorHandler.extractTechnicalMessage reads error.code of a value that is
\* neither a string nor an Error: it throws on null
extractTechnicalMessageThrows(error) == error.shape = "null"

\* ErrorHandler.classifyError throws where extractTechnicalMessage does
classifyErrorThrows(error) == extractTechnicalMessageThrows(error)

\* ErrorHandler.classifyError(error).retryable
classifyErrorRetryable(error) ==
  isRetryable(analyzeError(error).type, analyzeError(error).severity)

\* RetryHandler.defaultRetryCondition
defaultRetryCondition(error) == classifyErrorRetryable(error)

\* RetryHandler.databaseRetryCondition
databaseRetryCondition(error) ==
  IF error.shape = "null" THEN FALSE
  ELSE IF codeOf(error) \in {"ProvisionedThroughputExceededException",
                             "ThrottlingException", "RequestLimitExceeded",
                             "ServiceUnavailable", "InternalServerError",
                             "ItemCollectionSizeLimitExceededException"}
    THEN TRUE
  ELSE messageOf(error) # ""
       /\ (\/ includes(messageOf(error), "network")
           \/ includes(messageOf(error), "timeout")
           \/ includes(messageOf(error), "connection")
           \/ includes(messageOf(error), "econnreset"))

\* RetryHandler.emailRetryCondition
emailRetryCondition(error) ==
  IF error.shape = "null" THEN FALSE
  ELSE IF codeOf(error) \in {"Throttling", "ServiceUnavailable", "InternalServerError",
                             "RequestTimeout", "NetworkingError"}
    THEN TRUE
  ELSE IF codeOf(error) \in {"MessageRejected", "InvalidParameterValue",
                             "MailFromDomainNotVerified",
                             "ConfigurationSetDoesNotExist"}
    THEN FALSE
  ELSE messageOf(error) # ""
       /\ (\/ includes(messageOf(error), "network")
           \/ includes(messageOf(error), "timeout")
           \/ includes(messageOf(error), "connection"))

\* retryCondition(error) for the condition the options carry
retryCondition(name, error) ==
  IF name = "databaseRetryCondition" THEN databaseRetryCondition(error)
  ELSE IF name = "emailRetryCondition" THEN emailRetryCondition(error)
  ELSE defaultRetryCondition(error)

\* withRetry: if (attempt >= maxAttempts || !retryCondition(error)) break
shouldBreak(attempt, maxAttempts, name, error) ==
  attempt >= maxAttempts \/ ~retryCondition(name, error)

\* withRetry has been called with one of the configurations; log is what the
\* runs of the operation ended with, in order, and outcome what withRetry
\* returned or threw
RetryInit ==
  /\ \E options \in RetryOptions :
       ret = [op |-> "withRetry", pc |-> "attempt", log |-> <<>>,
              maxAttempts |-> options.maxAttempts, retryCondition |-> options.retryCondition,
              config |-> options.config, attempt |-> 1,
              outcome |-> Result, lastError |-> Result]
  /\ StoreIdle
  /\ GateIdle
  /\ inv = [i \in Invs |-> IdleInv]
  /\ DataIdle

\* one pass of the for loop up to its return, its throw, or its sleep.  The
\* catch block keeps the error as lastError and calls classifyError before
\* anything else, with nothing around it to catch what that throws; the break
\* at attempt >= maxAttempts comes before attempt++, so with maxAttempts >= 1
\* the loop is never left through its own condition
RetryAttempt(outcome) ==
  /\ ret.op = "withRetry" /\ ret.pc = "attempt"
  /\ ret.attempt <= ret.maxAttempts
  /\ ret' = IF outcome = Result
       THEN [ret EXCEPT !.pc = "returned", !.log = Append(@, outcome),
                        !.outcome = outcome]
       ELSE IF classifyErrorThrows(outcome)
         THEN [ret EXCEPT !.pc = "thrown", !.log = Append(@, outcome),
                          !.lastError = outcome, !.outcome = CodeOfNull]
       ELSE IF shouldBreak(ret.attempt, ret.maxAttempts, ret.retryCondition, outcome)
         THEN [ret EXCEPT !.pc = "thrown", !.log = Append(@, outcome),
                          !.lastError = outcome, !.outcome = outcome]
         ELSE [ret EXCEPT !.pc = "sleep", !.log = Append(@, outcome),
                          !.lastError = outcome]
  /\ UNCHANGED <<storeVars, gateVars, dataVars>>

\* sleep(delay) ends and the loop goes on with attempt++
RetrySleepEnds ==
  /\ ret.op = "withRetry" /\ ret.pc = "sleep"
  /\ ret' = [ret EXCEPT !.pc = "attempt", !.attempt = @ + 1]
  /\ UNCHANGED <<storeVars, gateVars, dataVars>>

RetryNext ==
  \/ \E outcome \in OperationOutcomes : RetryAttempt(outcome)
  \/ RetrySleepEnds

\* the operation and the sleep both settle
SpecRetry == RetryInit /\ [][RetryNext]_vars /\ WF_vars(RetryNext)

(***************************************************************************)
(* The callback data the keyboards carry, and where a tap on them goes     *)
(***************************************************************************)
MaxPages == 3

\* Math.ceil(n / d)
ceilDiv(n, d) == (n + d - 1) \div d

\* UIComponents.createCourseList for a category of n courses: the
\* callback_data of the buttons
createCourseList(n, category, currentPage) ==
  LET totalPages == ceilDiv(n, ITEMS_PER_PAGE)
      startIndex == (currentPage - 1) * ITEMS_PER_PAGE
      endIndex == IF startIndex + ITEMS_PER_PAGE < n THEN startIndex + ITEMS_PER_PAGE ELSE n
  IN {<<"course", courseIdAt(j)>> : j \in (startIndex + 1)..endIndex}
       \cup (IF totalPages > 1
               THEN (IF currentPage > 1
                       THEN {<<"courses", category, "page", ToString(currentPage - 1)>>}
                       ELSE {})
                    \cup {<<"noop">>}
                    \cup (IF currentPage < totalPages
                            THEN {<<"courses", category, "page", ToString(currentPage + 1)>>}
                            ELSE {})
               ELSE {})
       \cup {<<"browse", "categories">>, <<"main", "menu">>}

\* WebhookHandler.createMyReviewsKeyboard
createMyReviewsKeyboard(pageReviews, currentPage, totalPages) ==
  {<<"manage", "review", r>> : r \in pageReviews}
    \cup (IF totalPages > 1
            THEN (IF currentPage > 1
                    THEN {<<"my", "reviews", "page", ToString(currentPage - 1)>>}
                    ELSE {})
                 \cup {<<"noop">>}
                 \cup (IF currentPage < totalPages
                         THEN {<<"my", "reviews", "page", ToString(currentPage + 1)>>}
                         ELSE {})
            ELSE {})
    \cup {<<"post", "review">>, <<"main", "menu">>}

\* WebhookHandler.handleMyReviewsCallback: the keyboard shown to a user who
\* has no review
myReviewsEmptyKeyboard ==
  {<<"post", "review">>, <<"browse", "courses">>, <<"main", "menu">>}

\* the reviews table when u1 has posted exactly the reviews of ids, each on a
\* course of its own
reviewsOfUser(ids) ==
  [r \in ReviewIds |->
     IF r \in ids
       THEN [present |-> TRUE, userId |-> "u1", isDeleted |-> FALSE,
             courseId |-> "c" \o SubSeq(r, 2, Len(r)), ratings |-> SampleRatings,
             text |-> "", anonymous |-> FALSE]
       ELSE NoReview]

\* u1 looks at a keyboard the bot has sent: a page of the course list of a
\* category that has courses, or the My Reviews screen of the reviews u1 has
\* posted; data is the callback_data of one of its buttons
ButtonsInit ==
  /\ \/ \E category \in Categories, currentPage \in 1..MaxPages :
          LET n == Cardinality(getCoursesByCategory(category))
          IN /\ n > 0
             /\ currentPage <= ceilDiv(n, ITEMS_PER_PAGE)
             /\ \E data \in createCourseList(n, category, currentPage) :
                  ret = [op |-> "rendered", data |-> data, page |-> currentPage,
                         items |-> n, by |-> "createCourseList"]
             /\ states = [u \in Users |->
                  IF u = "u1"
                    THEN sessionEntry("BROWSING_CATEGORIES",
                                      [EmptyData EXCEPT !.selectedCategory = category], 0)
                    ELSE NoSession]
             /\ reviews = reviewsOfUser({})
     \/ \E pageReviews \in SUBSET ReviewIds :
          /\ IF pageReviews = {}
               THEN \E data \in myReviewsEmptyKeyboard :
                      ret = [op |-> "rendered", data |-> data,
                             page |-> 1, items |-> 0, by |-> "handleMyReviewsCallback"]
               ELSE \E data \in createMyReviewsKeyboard(pageReviews, 1, 1) :
                      ret = [op |-> "rendered", data |-> data,
                             page |-> 1,
                             items |-> Cardinality(pageReviews), by |-> "createMyReviewsKeyboard"]
          /\ states = [u \in Users |->
               IF u = "u1" THEN sessionEntry("VIEWING_MY_REVIEWS", Undefined, 0)
               ELSE NoSession]
          /\ reviews = reviewsOfUser(pageReviews)
  /\ now = 0
  /\ votes = [v \in VoteIds |-> NoVote]
  /\ profiles = [u \in Users |->
       IF u = "u1" THEN [present |-> TRUE, name |-> "", promotion |-> ""] ELSE NoUser]
  /\ editingReviews = [u \in Users |-> NoDraft]
  /\ calls = [p \in Procs |-> NoCallInFlight]
  /\ timers = NoTimers
  /\ GateIdle
  /\ inv = [i \in Invs |-> IdleInv]

\* the button is tapped: processUpdate is called with the callback query that
\* carries its data
TapRendered ==
  /\ ret.op = "rendered"
  /\ ProcessUpdate("p", "u1", [kind |-> "callback_query", data |-> ret.data])

ButtonsNext == TapRendered \/ Answer("p")

SpecButtons == ButtonsInit /\ [][ButtonsNext]_vars

(***************************************************************************)
(* Claims about the rate-limit gate                                        *)
(***************************************************************************)
\* an invocation that has just run checkRateLimit and still holds what it read
JustChecked(i) ==
  /\ inv[i].pc \in {"record", "denied"}
  /\ inv[i].call = "checkRateLimit"
  /\ inv[i].item.exists

\* C1: checkRateLimit denies when the item it read has dailyCount at the daily
\* limit and lastResetDate equal to the current UTC day; when lastResetDate is
\* another day and the lifetime limit is not reached it allows and reports an
\* effective daily count of 0, whatever dailyCount is stored.
C1_DailyDenyAndRollover ==
  \A i \in Invs :
    JustChecked(i) =>
      /\ (inv[i].item.dailyCount >= DailyLimit /\ inv[i].item.lastResetDate = inv[i].checkDay)
            => ~inv[i].result.allowed
      /\ (inv[i].item.lastResetDate # inv[i].checkDay /\ inv[i].item.totalCount < TotalLimit)
            => (inv[i].result.allowed /\ inv[i].result.dailyCount = 0)

\* C1 witness: one invocation was denied on the day the limit was reached, and
\* another was allowed after the rollover while the stored item still carries
\* the old day and the full dailyCount (no write since the rollover).
C1_Witness ==
  \E i, j \in Invs :
    /\ JustChecked(i) /\ ~inv[i].result.allowed
    /\ inv[i].item.dailyCount >= DailyLimit /\ inv[i].item.lastResetDate = inv[i].checkDay
    /\ JustChecked(j) /\ inv[j].result.allowed /\ inv[j].result.dailyCount = 0
    /\ inv[j].item.dailyCount >= DailyLimit /\ inv[j].item.lastResetDate < inv[j].checkDay
    /\ rateLimits[inv[j].user] = inv[j].item

\* C2: once the stored totalCount has reached the lifetime limit, a
\* checkRateLimit made after any further step is denied.
C2_LifetimeDenialPermanent ==
  [][\A u \in GateUsers :
       (rateLimits[u].exists /\ rateLimits[u].totalCount >= TotalLimit)
         => ~checkRateLimit(getOrCreate(rateLimits', u, today'), today').allowed]_vars

\* C3: the stored totalCount of a user never decreases.
C3_TotalCountMonotone ==
  [][\A u \in GateUsers :
       (rateLimits[u].exists /\ rateLimits[u].totalCount >= 0)
         => (rateLimits'[u].exists /\ rateLimits'[u].totalCount >= rateLimits[u].totalCount)]_vars

\* C4 as claimed: an invocation has incremented the counters only if its
\* update was routed, and routed to a handler.
C4_RecordOnlyAfterRouting ==
  \A i \in Invs :
    inv[i].recorded => inv[i].routed \notin {"none", "unknown_callback"}

\* C4 amended: every update that passes the quota check is recorded before it
\* is routed; processUpdate never starts, goes on or ends, with a handler or
\* without one, unless the increment has been written.
C4_RecordedBeforeRouting ==
  \A i \in Invs :
    (inv[i].pc \in {"process", "processing"}
       \/ inv[i].routed \notin {"none", "rate_limit_exceeded"})
      => inv[i].recorded

\* C4 witness: an update for which no route was found and whose increment
\* stands.
C4_Witness ==
  \E i \in Invs :
    /\ inv[i].pc = "done" /\ inv[i].routed = "unknown_callback" /\ inv[i].recorded
    /\ rateLimits[inv[i].user].totalCount >= 1

(***************************************************************************)
(* Claims about the session store                                          *)
(***************************************************************************)

\* C6: when more than 30 minutes have passed since the entry's lastActivity,
\* getState returns null and deletes the entry; the setState that follows
\* stores exactly the newly supplied state and context (data || null) with
\* lastActivity = now, nothing of the expired session.
C6_ExpiredGetThenFreshSet ==
  [][ /\ (/\ ret'.op = "getState"
          /\ states[ret'.user].present
          /\ now > states[ret'.user].lastActivity + STATE_TIMEOUT_MINUTES)
         => (ret'.value = Null /\ ~states'[ret'.user].present)
      /\ (ret'.op = "setState" /\ ret'.afterExpired)
         => states'[ret'.user] =
              [present |-> TRUE, state |-> ret'.state,
               data |-> IF ret'.data = Undefined THEN Null ELSE ret'.data,
               lastActivity |-> now] ]_vars

\* a setState right after a getState that found the entry expired
C6_Witness ==
  /\ ret.op = "setState"
  /\ ret.afterExpired
  /\ ret.data # Undefined
  /\ states[ret.user].data = ret.data
  /\ states[ret.user].lastActivity > STATE_TIMEOUT_MINUTES

\* C8: isValidTransition(from, to) is true for every from when to is
\* MAIN_MENU; for any other pair it is true exactly when to is in the
\* allow-list of from; from POSTING_REVIEW exactly MAIN_MENU, VIEWING_COURSE
\* and COLLECTING_NAME are valid.
C8_TransitionTable ==
  ret.op = "isValidTransition" =>
    /\ (ret.to = "MAIN_MENU" => ret.value)
    /\ (ret.to # "MAIN_MENU" => (ret.value <=> ret.to \in validTransitions(ret.from)))
    /\ (ret.from = "POSTING_REVIEW" =>
          (ret.value <=> ret.to \in {"MAIN_MENU", "VIEWING_COURSE", "COLLECTING_NAME"}))

\* a state with no row in the table may still go to MAIN_MENU
C8_Witness ==
  /\ ret.op = "isValidTransition"
  /\ ret.from = "REQUESTING_COURSE_EDIT"
  /\ ret.to = "MAIN_MENU"
  /\ ret.value

(***************************************************************************)
(* Claims about routing                                                    *)
(***************************************************************************)

\* C9: the route list is ordered so that reviews_<id>_page_<n> reaches the
\* paged-reviews handler, edit_review_text the review-text handler and
\* course_details_<id> the course-details handler, and every registered
\* binding is the first match of some callback data.
C9_SpecificBeforeGeneral ==
  /\ ret.op = "handleCallbackQuery" =>
       /\ (\E id \in AnyFills \ {<<"">>}, n \in DigitSegs :
              ret.job.data = <<"reviews">> \o id \o <<"page", n>>)
          => handlerOf(ret.job.data) = "handleReviewsPageCallback"
       /\ ret.job.data = <<"edit", "review", "text">>
          => handlerOf(ret.job.data) = "handleEditReviewTextCallback"
       /\ (\E id \in AnyFills \ {<<"">>} : ret.job.data = <<"course", "details">> \o id)
          => handlerOf(ret.job.data) = "handleCourseDetailsCallback"
  /\ \A i \in DOMAIN callbackRoutes : \E data \in CallbackData : firstMatch(data) = i


(***************************************************************************)
(* Claims about voting                                                     *)
(***************************************************************************)
\* the votes of user u on review r that the table tab holds
votesOf(tab, u, r) ==
  {v \in VoteIds : tab[v].present /\ tab[v].userId = u /\ tab[v].reviewId = r}

\* C10: for a voter and a review authored by someone else, a cast in the
\* direction of the voter's stored vote leaves no vote by that voter on the
\* review; a cast in the other direction leaves exactly one vote, of the new
\* direction; a cast by the review's author is rejected and stores no vote.
\* The casts are voteOnReview calls during which no other call is in flight.
C10_ToggleReplaceSelfVote ==
  (ret.op = "voteOnReview" /\ ~ret.overlap) =>
    LET u == ret.job.user
        r == ret.job.reviewId
        t == ret.job.voteType
        before == ret.began
        mine == votesOf(before.votes, u, r)
        mineAfter == votesOf(votes, u, r)
        live == before.reviews[r].present /\ ~before.reviews[r].isDeleted
    IN /\ (live /\ before.reviews[r].userId # u /\ \E v \in mine : before.votes[v].voteType = t)
            => mineAfter = {}
       /\ (live /\ before.reviews[r].userId # u /\ \E v \in mine : before.votes[v].voteType # t)
            => /\ Cardinality(mineAfter) = 1
               /\ \A v \in mineAfter : votes[v].voteType = t
       /\ (live /\ before.reviews[r].userId = u)
            => /\ ret.err = "Users cannot vote on their own reviews"
               /\ votes = before.votes

\* an up vote replaced by a down vote on someone else's review
C10_Witness ==
  /\ ret.op = "voteOnReview"
  /\ ~ret.overlap
  /\ ret.job.voteType = "down"
  /\ \E v \in votesOf(ret.began.votes, ret.job.user, ret.job.reviewId) :
       ret.began.votes[v].voteType = "up"
  /\ ret.err = "none"
  /\ ret.began.reviews[ret.job.reviewId].present
  /\ ret.began.reviews[ret.job.reviewId].userId # ret.job.user
  /\ \E v \in votesOf(votes, ret.job.user, ret.job.reviewId) : votes[v].voteType = "down"

(***************************************************************************)
(* Claims about the conversation                                           *)
(***************************************************************************)
\* what the job gives when it runs from what the tables and the maps held in
\* snapshot b, with no session stored for user u, no other call in flight
fromAbsent(job, b, u) ==
  Run(job,
      [World EXCEPT !.states = [b.states EXCEPT ![u] = NoSession],
                    !.reviews = b.reviews, !.votes = b.votes,
                    !.profiles = b.profiles, !.editingReviews = b.editingReviews,
                    !.mid = hasMessageId(job)],
      b.now)

\* C5: an update that arrives more than 30 minutes after the user's last
\* activity is handled as if no session were stored: what it leaves behind
\* (session, tables, drafts) and the reply are those the same update gives
\* from an absent session.  The updates are those handled with no other call
\* in flight and no time passing meanwhile.
C5_StaleSessionTreatedAsAbsent ==
  (/\ ret.op = "processUpdate"
   /\ ~ret.overlap
   /\ ret.began.now = now
   /\ staleSession(ret.began.states, ret.job.user, now))
    => LET w == fromAbsent(ret.job, ret.began, ret.job.user)
       IN /\ states = w.states
          /\ reviews = w.reviews
          /\ votes = w.votes
          /\ profiles = w.profiles
          /\ editingReviews = w.editingReviews
          /\ ret.sent = w.sent

\* C7: whenever a handler changes the state of a live session from s to a
\* different state t, isValidTransition(s, t) holds.
C7_TransitionsInAllowList ==
  [][ \A u \in Users :
        (/\ states[u].present
         /\ ~sessionExpired(states[u], now)
         /\ states'[u].present
         /\ states'[u].state # states[u].state)
        => isValidTransition(states[u].state, states'[u].state) ]_vars

(***************************************************************************)
(* Claims about overlapping calls                                          *)
(***************************************************************************)

\* C11: whatever the interleaving of castVote calls, the votes table holds at
\* most one row for each (voter, review) pair.
C11_OneVotePerPair ==
  \A u \in Users, r \in ReviewIds : Cardinality(getUserVote(World, u, r)) <= 1

\* a cast that found no vote lost the race for its pair: its put was refused,
\* and the pair has the row of the other cast
C11_Witness ==
  /\ ret.op = "castVote"
  /\ ret.overlap
  /\ ret.err = "Item already exists"
  /\ Cardinality(getUserVote(World, ret.job.user, ret.job.reviewId)) = 1

\* C12: a cast that found no vote and then meets the row a concurrent cast
\* created (its own create is refused) is resolved as a toggle or a replace
\* against that row: it ends without an error or with the removal of the vote.
C12_LoserTogglesOrReplaces ==
  (/\ ret.op = "castVote"
   /\ Len(ret.log) = 2
   /\ ~ret.log[1].present
   /\ ret.log[2] = FALSE)
    => ret.err \in {"none", "Vote removed"}


(***************************************************************************)
(* Claims about drafts and commits                                         *)
(*                                                                         *)
(* ret is what the last call that ended is known to have done; when no     *)
(* other call was in flight meanwhile, ret.began is what the tables and    *)
(* the maps held when the call started.                                    *)
(***************************************************************************)
\* an update of user u has been handled with no other call in flight
Handled(update) ==
  ret.op = "processUpdate" /\ ~ret.overlap /\ ret.job.update = update

\* a callback query has been handled with no other call in flight
HandledTap(data) == Handled([kind |-> "callback_query", data |-> data])

\* the world of snapshot b
worldOf(b) ==
  [World EXCEPT !.states = b.states, !.reviews = b.reviews, !.votes = b.votes,
                !.profiles = b.profiles, !.editingReviews = b.editingReviews]

\* the session value getState gave in snapshot b, after the renewal that
\* precedes the dispatch
sessionIn(b, u) == getStateValue(renewSession(b.states, u, b.now), u, b.now)

\* C13: when handleSaveReviewCallback runs on a draft with a rating outside
\* 1..5 or a text longer than 2000 characters, the save fails, the reviews
\* table is unchanged and the draft stays in the editor as it was.  The saves
\* are those handled with no other call in flight.
C13_InvalidDraftSaveRejected ==
  (/\ HandledTap(<<"save", "review", "r1">>)
   /\ ret.began.editingReviews[ret.job.user].present
   /\ \/ ret.began.editingReviews[ret.job.user].ratings.overall \notin 1..5
      \/ ret.began.editingReviews[ret.job.user].ratings.quality \notin 1..5
      \/ ret.began.editingReviews[ret.job.user].ratings.difficulty \notin 1..5
      \/ lengthOf(ret.began.editingReviews[ret.job.user].text) > 2000)
    => /\ ret.reply = "error: Failed to save review changes."
       /\ reviews = ret.began.reviews
       /\ editingReviews = ret.began.editingReviews

\* a save was refused on a draft whose text is too long
C13_Witness ==
  /\ HandledTap(<<"save", "review", "r1">>)
  /\ ret.reply = "error: Failed to save review changes."
  /\ ret.began.editingReviews[ret.job.user].present
  /\ editingReviews[ret.job.user].present
  /\ editingReviews[ret.job.user].ratings = SampleRatings
  /\ lengthOf(editingReviews[ret.job.user].text) > 2000

\* C14: whenever the handler reports that a submission or a save failed, the
\* reviews table is what it was before the attempt.
C14_FailedCommitWritesNothing ==
  (/\ ret.op = "processUpdate"
   /\ ~ret.overlap
   /\ ret.reply \in {"error: Failed to save review changes.", "submit_failed",
                      "submit_failed_already_reviewed"})
    => reviews = ret.began.reviews

\* C15: after a successful save the stored review's ratings, text and
\* anonymous flag are those of the draft at the moment of saving; a draft
\* whose text was removed leaves the stored review without text.
C15_SavedReviewEqualsDraft ==
  (ret.op = "processUpdate" /\ ~ret.overlap /\ ret.reply = "review_updated")
    => /\ reviews["r1"].ratings = ret.began.editingReviews[ret.job.user].ratings
       /\ reviews["r1"].text = ret.began.editingReviews[ret.job.user].text
       /\ reviews["r1"].anonymous = ret.began.editingReviews[ret.job.user].anonymous

\* C16: a user has a draft in editingReviews only while the user's session
\* state is EDITING_REVIEW or EDITING_REVIEW_TEXT.
C16_DraftOnlyWhileEditing ==
  \A u \in Users :
    editingReviews[u].present
      => /\ states[u].present
         /\ states[u].state \in {"EDITING_REVIEW", "EDITING_REVIEW_TEXT"}

\* C18: a confirmation that is rejected because the user already has a review
\* of the course is answered with the duplicate-submission response.
C18_DuplicateOffersEdit ==
  (/\ HandledTap(<<"confirm", "review">>)
   /\ inPostingWithCourse(sessionIn(ret.began, ret.job.user))
   /\ dataOf(sessionIn(ret.began, ret.job.user)).ratings = SampleRatings
   /\ getUserReviewForCourse(worldOf(ret.began), ret.job.user,
         dataOf(sessionIn(ret.began, ret.job.user)).courseId) # {})
    => ret.reply \in {"offer_edit_existing", "submit_failed_already_reviewed"}

\* C17: a user never has more than one non-deleted review of a course, also
\* when two createReview calls overlap
C17_OneReviewPerUserCourse ==
  \A u \in Users, c \in Courses : Cardinality(getUserReviewForCourse(World, u, c)) <= 1

\* C19: a check that read an item carrying the current UTC day and a
\* dailyCount at the daily limit is denied with the daily reason and a
\* resetTime that is the midnight beginning the next UTC day; the invocation
\* ends on the denied branch and neither its check nor its end writes the
\* stored item, totalCount and dailyCount included.
C19_DailyDenialLeavesCounts ==
  [][\A i \in Invs :
       /\ (/\ inv[i].pc = "got" /\ inv[i].call = "checkRateLimit" /\ inv'[i].pc # "got"
           /\ inv[i].item.dailyCount >= DailyLimit
           /\ inv[i].item.lastResetDate = today)
            => /\ inv'[i].pc = "denied"
               /\ ~inv'[i].result.allowed
               /\ inv'[i].result.reason = "Daily"
               /\ inv'[i].result.resetTime = today + 1
               /\ rateLimits'[inv[i].user] = rateLimits[inv[i].user]
       /\ (inv[i].pc = "denied" /\ inv'[i].pc # "denied")
            => /\ inv'[i].pc = "done"
               /\ ~inv'[i].recorded
               /\ rateLimits'[inv[i].user] = rateLimits[inv[i].user]]_vars

\* C19 witness: an invocation ended on the denial of a user whose accepted
\* messages of today number the daily limit, and the stored counters are
\* still at that number.
C19_Witness ==
  \E i \in Invs :
    /\ inv[i].pc = "done" /\ inv[i].routed = "rate_limit_exceeded" /\ ~inv[i].recorded
    /\ rateLimits[inv[i].user].dailyCount = DailyLimit
    /\ rateLimits[inv[i].user].totalCount = DailyLimit
    /\ rateLimits[inv[i].user].lastResetDate = today
    /\ \A j \in Invs \ {i} : inv[j].pc = "idle"

\* C20: an invocation of handleWebhook whose check denies the update goes to
\* the denied branch and ends there with the rate limit response: it never
\* calls processUpdate, and neither its check nor its end changes the session
\* map, with the user's state, context and lastActivity, or the stored data.
C20_DeniedUpdateNotDispatched ==
  [][\A i \in Invs :
       /\ (/\ inv[i].pc = "got" /\ inv[i].call = "checkRateLimit" /\ inv'[i].pc # "got"
           /\ ~checkRateLimit(inv[i].item, today).allowed)
            => /\ inv'[i].pc = "denied"
               /\ states' = states
               /\ <<reviews, votes, profiles, editingReviews, calls>>' =
                    <<reviews, votes, profiles, editingReviews, calls>>
       /\ (inv[i].pc = "denied" /\ inv'[i].pc # "denied")
            => /\ inv'[i].pc = "done"
               /\ inv'[i].routed = "rate_limit_exceeded"
               /\ states' = states
               /\ <<reviews, votes, profiles, editingReviews, calls>>' =
                    <<reviews, votes, profiles, editingReviews, calls>>]_vars

\* C20 witness: a denied update of a user whose session was last active
\* earlier than now, so that a dispatch would have renewed it.
C20_Witness ==
  \E i \in Invs :
    /\ inv[i].pc = "done" /\ inv[i].routed = "rate_limit_exceeded"
    /\ states[inv[i].user].present
    /\ states[inv[i].user].lastActivity < now
    /\ ~sessionExpired(states[inv[i].user], now)

\* C21: the write of a recordMessage call leaves the stored totalCount one
\* higher than it was, the stored dailyCount one higher than it was when the
\* stored lastResetDate was the UTC day the call took as today and equal to 1
\* otherwise, and the stored lastResetDate equal to that day.
C21_RecordAddsExactlyOne ==
  [][\A i \in Invs :
       (/\ inv[i].pc = "got" /\ inv[i].call = "incrementCounts" /\ inv'[i].pc = "process"
        /\ rateLimits[inv[i].user].exists
        /\ rateLimits[inv[i].user].totalCount >= 0)
         => LET before == rateLimits[inv[i].user]
                after == rateLimits'[inv[i].user]
            IN /\ after.totalCount = before.totalCount + 1
               /\ after.dailyCount =
                    IF before.lastResetDate = inv[i].incDay
                      THEN before.dailyCount + 1 ELSE 1
               /\ after.lastResetDate = inv[i].incDay]_vars

\* C22: free text that is not a command, received when the session is not
\* POSTING_REVIEW awaiting the review text, COLLECTING_NAME,
\* COLLECTING_PROMOTION or EDITING_REVIEW_TEXT, is answered with the
\* unrecognized-input response.
C22_OtherTextUnrecognized ==
  (/\ ret.op = "processUpdate"
   /\ ~ret.overlap
   /\ ret.job.update.kind = "message"
   /\ ret.job.update.text.v \notin CommandTexts
   /\ LET sd == sessionIn(ret.began, ret.job.user)
      IN /\ stateOf(sd) \notin {"COLLECTING_NAME", "COLLECTING_PROMOTION",
                                "EDITING_REVIEW_TEXT"}
         /\ ~(stateOf(sd) = "POSTING_REVIEW" /\ dataOf(sd).waitingForReviewText))
    => ret.reply = "unknown_input"


(***************************************************************************)
(* Claims about the timeout timers                                         *)
(***************************************************************************)

\* C23: when the warning timer runs on time, for a session that is present,
\* not expired, and has seen no activity since the timers were started, the
\* warning callback is invoked once.
C23_WarningInvokedAtDeadline ==
  [][ (/\ ret'.op = "warningTimer"
       /\ timers'.fired # timers.fired
       /\ ret'.timer.due = now
       /\ states[ret'.timer.user].present
       /\ ~sessionExpired(states[ret'.timer.user], now)
       /\ states[ret'.timer.user].lastActivity + WARNING_TIMEOUT_MS <= ret'.timer.due)
      => timers'.onWarning[ret'.timer.user] = timers.onWarning[ret'.timer.user] + 1 ]_vars

\* C24: when the session timer runs on time, for a session that is present and
\* has seen no activity since the timers were started, the session is cleared
\* and the timeout callback is invoked once.
C24_ExpiryClearsAndInvokes ==
  [][ (/\ ret'.op = "sessionTimer"
       /\ timers'.fired # timers.fired
       /\ ret'.timer.due = now
       /\ states[ret'.timer.user].present
       /\ states[ret'.timer.user].lastActivity + SESSION_TIMEOUT_MS <= ret'.timer.due)
      => /\ ~states'[ret'.timer.user].present
         /\ timers'.onTimeout[ret'.timer.user] = timers.onTimeout[ret'.timer.user] + 1 ]_vars

\* C25: a user never has more than one warning timer or more than one session
\* timer pending, no timer that was cancelled while pending ever runs, and
\* TimeoutHandler.renewSession leaves pending for the user exactly the two
\* timers it sets, due 10 and 15 minutes after the renewal, every timer that
\* was pending before being cancelled.
C25_OneTimerEachRenewResets ==
  /\ [](/\ \A u \in Users, k \in {"warning", "session"} :
             Cardinality({x \in timers.set : x.user = u /\ x.kind = k}) <= 1
        /\ timers.fired \cap timers.cancelled = {})
  /\ [][\A u \in Users :
          (ret'.op = "renewSession" /\ ret'.user = u /\ timers'.nextId # timers.nextId)
            => /\ {x \in timers'.set : x.user = u} =
                    {[kind |-> "warning", user |-> u,
                      id |-> timers.nextId, due |-> now + WARNING_TIMEOUT_MS],
                     [kind |-> "session", user |-> u,
                      id |-> timers.nextId + 1, due |-> now + SESSION_TIMEOUT_MS]}
               /\ \A x \in timers.set : x.user = u => x.id \in timers'.cancelled]_vars

\* C25 witness: a renewal that cancelled a pending timer, after an earlier
\* timer had run, with the two new timers pending.
C25_Witness ==
  /\ ret.op = "renewSession"
  /\ timers.cancelled # {} /\ timers.fired # {}
  /\ Cardinality({x \in timers.set : x.user = ret.user}) = 2
  /\ \A x \in timers.set : x.due > now

\* C26: whenever getTimeoutInfo returns flags, isExpired is true exactly when
\* isSessionExpired is true and exactly when getState treats the session as
\* expired (returns null).
C26_TimeoutInfoAgreesWithStore ==
  (ret.op = "getTimeoutInfo" /\ ret.info # Null)
    => /\ ret.info.isExpired <=> ret.isSessionExpired
       /\ ret.info.isExpired <=> (ret.getState = Null)

\* C27: when the store answers the update of the course that ends the
\* createReview of a confirm (the review has been put), after a cancellation
\* put the session back to MAIN_MENU meanwhile, either the commit completes
\* (the update succeeded and the review is stored) or the user has no review
\* in the store.
C27_CommitAtomicUnderCancel ==
  [][\A p \in Procs :
       (/\ inFlight(p) /\ calls'[p].pc = "run"
        /\ calls[p].job.kind = "processUpdate"
        /\ calls[p].job.update = [kind |-> "callback_query", data |-> <<"confirm", "review">>]
        /\ calls[p].at = "update courses"
        /\ Len(calls'[p].log) > Len(calls[p].log)
        /\ calls[p].overlap
        /\ stateOf(getStateValue(states, calls[p].job.user, now)) = "MAIN_MENU")
         => \/ /\ calls'[p].log[Len(calls[p].log) + 1] = TRUE
               /\ getReviewsByUser([World EXCEPT !.reviews = reviews'], calls[p].job.user) # {}
            \/ getReviewsByUser([World EXCEPT !.reviews = reviews'], calls[p].job.user) = {}]_vars

(***************************************************************************)
(* Claims about the way back to the main menu and the posting flow         *)
(***************************************************************************)
\* C28: from every session state, and from no session, handling the /start
\* command, the main_menu token or the cancel_review token leaves the session
\* of the user in MAIN_MENU with no context.  The updates are those handled
\* with no other call in flight.
C28_HomeAlwaysMainMenu ==
  (ret.op = "processUpdate" /\ ~ret.overlap /\ ret.job.update \in HomeUpdates)
    => /\ states[ret.job.user].present
       /\ states[ret.job.user].state = "MAIN_MENU"
       /\ states[ret.job.user].data = Null

\* C28 witness: a cancel_review handled in POSTING_REVIEW has ended in
\* MAIN_MENU with no context.
C28_Witness ==
  /\ HandledTap(<<"cancel", "review">>)
  /\ ret.began.states[ret.job.user].present
  /\ ret.began.states[ret.job.user].state = "POSTING_REVIEW"
  /\ states[ret.job.user].present /\ states[ret.job.user].state = "MAIN_MENU"
  /\ states[ret.job.user].data = Null

\* the draft of the posting flow: course c1, ratings 4, 4 and 3, text "ok",
\* not anonymous
TourDraft(sd) ==
  /\ stateOf(sd) = "POSTING_REVIEW"
  /\ dataOf(sd).courseId = "c1"
  /\ dataOf(sd).ratings = [overall |-> 4, quality |-> 4, difficulty |-> 3]
  /\ dataOf(sd).text = "ok"
  /\ dataOf(sd).anonymous = "false"

\* C29: from no session /start gives MAIN_MENU; a valid category token gives
\* BROWSING_CATEGORIES with the category selected; the token of an existing
\* course gives VIEWING_COURSE; and confirming the draft of a review of that
\* course with ratings 4, 4, 3, text "ok", not anonymous, by a user who has
\* not reviewed the course, stores exactly one review with those values and
\* leaves the session in MAIN_MENU with no draft.  The updates are handled
\* one after the other.
C29_TourEndsInOneReview ==
  (ret.op = "processUpdate" /\ ~ret.overlap) =>
    LET u == ret.job.user
        upd == ret.job.update
        before == ret.began
        mine == {r \in ReviewIds : /\ reviews[r].present /\ reviews[r].userId = u
                                   /\ reviews[r].courseId = "c1"}
    IN /\ (upd = [kind |-> "message", text |-> [v |-> "/start", len |-> 6]])
            => states[u].present /\ states[u].state = "MAIN_MENU"
       /\ (upd = [kind |-> "callback_query", data |-> <<"category", "CSE">>])
            => /\ states[u].present /\ states[u].state = "BROWSING_CATEGORIES"
               /\ states[u].data # Null
               /\ states[u].data.selectedCategory = "CSE"
       /\ (upd = [kind |-> "callback_query", data |-> <<"course", "c1">>])
            => /\ states[u].present /\ states[u].state = "VIEWING_COURSE"
       /\ (/\ upd = [kind |-> "callback_query", data |-> <<"confirm", "review">>]
           /\ TourDraft(sessionIn(before, u))
           /\ getUserReviewForCourse(worldOf(before), u, "c1") = {})
            => /\ ret.reply = "review_submitted"
               /\ Cardinality(mine) = 1
               /\ \A r \in mine :
                    /\ reviews[r].ratings = [overall |-> 4, quality |-> 4, difficulty |-> 3]
                    /\ reviews[r].text = "ok"
                    /\ reviews[r].anonymous = FALSE
                    /\ ~reviews[r].isDeleted
                    /\ ~before.reviews[r].present
               /\ \A r \in ReviewIds \ mine : reviews[r] = before.reviews[r]
               /\ states[u].present /\ states[u].state = "MAIN_MENU"
               /\ states[u].data = Null
               /\ editingReviews[u] = NoDraft

\* C29 witness: the confirm of that draft has been handled and the review is
\* stored with ratings 4, 4, 3 and text "ok".
C29_Witness ==
  /\ HandledTap(<<"confirm", "review">>)
  /\ TourDraft(sessionIn(ret.began, ret.job.user))
  /\ ret.reply = "review_submitted"
  /\ \E r \in ReviewIds :
       /\ reviews[r].present /\ reviews[r].userId = ret.job.user /\ reviews[r].text = "ok"
       /\ reviews[r].ratings = [overall |-> 4, quality |-> 4, difficulty |-> 3]
       /\ ~ret.began.reviews[r].present
  /\ states[ret.job.user].state = "MAIN_MENU"

(***************************************************************************)
(* Claims about what the review service writes                             *)
(***************************************************************************)
\* C30: whatever rating, text, confirm and save events are handled, a review
\* that createReview stores has three integer ratings in 1..5 and a text of at
\* most 2000 characters, and so have the ratings and the text that
\* updateReview writes into a stored review (a rating of 4.5 is Half + 4,
\* which is outside 1..5).
C30_WrittenReviewsInRange ==
  [][\A r \in ReviewIds :
       LET old == reviews[r]
           new == reviews'[r]
           wroteRatings == ~old.present \/ new.ratings # old.ratings
           wroteText == ~old.present \/ new.text # old.text
       IN (new.present /\ new # old)
            => /\ wroteRatings => /\ new.ratings.overall \in 1..5
                                  /\ new.ratings.quality \in 1..5
                                  /\ new.ratings.difficulty \in 1..5
               /\ wroteText => lengthOf(new.text) <= 2000]_vars

\* C30 witness: a review changed through save is in the store, after a text
\* of 2001 characters had been offered and refused, and the save has been
\* reported.
C30_Witness ==
  /\ reviews["r1"].present
  /\ reviews["r1"].userId = "u1"
  /\ reviews["r1"].ratings.overall = 5
  /\ reviews["r1"].text = "new"
  /\ ret.op = "processUpdate" /\ ret.reply = "review_updated"

(***************************************************************************)
(* Claims about keyboards and routes                                       *)
(***************************************************************************)
\* C31: for every review id (also with "_" in it), every dimension and value
\* 1..5, the token set_rating_<id>_<dimension>_<value> of the rating keyboard
\* is routed to the set-rating handler and parsed back to that id, dimension
\* and value: the handler sets that dimension of the draft to that value,
\* leaves the other two, and sends the edit menu with the keyboard of that id.
C31_SetRatingRoundTrip ==
  \A reviewId \in RatingRecordIds, ratingType \in RatingTypes, n \in 1..5 :
    (/\ ret.op = "processUpdate" /\ ~ret.overlap
     /\ ret.job.update.data = setRatingToken(reviewId, ratingType, n))
      => /\ handlerOf(ret.job.update.data) = "handleSetRatingCallback"
         /\ ret.err = "none" /\ ret.reply = "edit_review_menu"
         /\ ret.markup = createEditReviewKeyboard(reviewId)
         /\ editingReviews[ret.job.user].ratings =
              [ret.began.editingReviews[ret.job.user].ratings EXCEPT ![ratingType] = n]

\* C31 witness: the five-star button of the quality keyboard of review a__b
\* has been tapped and handled, and the draft went from quality 4 to 5.
C31_Witness ==
  /\ ret.op = "processUpdate" /\ ~ret.overlap
  /\ ret.job.update.data = <<"set", "rating", "a", "", "b", "quality", "5">>
  /\ ret.reply = "edit_review_menu"
  /\ editingReviews["u1"].ratings.quality = 5
  /\ ret.began.editingReviews["u1"].ratings.quality = 4

(***************************************************************************)
(* Claims about reviews that are gone                                      *)
(***************************************************************************)
\* C32: when an edit, a delete or a vote refers to a review that does not
\* exist or is soft-deleted, the handler ends with a notice to the user and
\* the session of the user is left in MAIN_MENU (no session counts as
\* MAIN_MENU).
C32_GoneReviewBackToMainMenu ==
  (/\ ret.op = "processUpdate"
   /\ ~ret.overlap
   /\ ret.job.update.data \in {<<"edit", "review", "r1">>, <<"confirm", "delete", "r1">>,
                               <<"vote", "r1", "up">>}
   /\ (~ret.began.reviews["r1"].present \/ ret.began.reviews["r1"].isDeleted))
    => /\ ret.reply \in {"review_not_found", "no_review_being_edited",
                         "error: Failed to delete review.",
                         "Failed to record vote.", "Cannot vote on deleted reviews."}
       /\ stateOf(getStateValue(states, ret.job.user, now)) \in {"", "MAIN_MENU"}

\* C33: a command that is not in the command table gets the unknown-command
\* response and a callback data that matches no registered pattern gets the
\* unknown-action response; nothing but the renewal of the session that
\* precedes the dispatch is done.  The updates are those handled with no
\* other call in flight.
C33_UnknownInputsOnlyAnswered ==
  (/\ ret.op = "processUpdate"
   /\ ~ret.overlap
   /\ \/ ret.job.update.kind = "message" /\ ret.job.update.text.v \in CommandTexts
         /\ ret.job.update.text.v \notin {"/start", "/help"}
      \/ ret.job.update.kind = "callback_query" /\ firstMatch(ret.job.update.data) = 0)
    => /\ ret.sent = <<IF ret.job.update.kind = "message" THEN "unknown_command"
                       ELSE "unknown_callback">>
       /\ states = renewSession(ret.began.states, ret.job.user, ret.began.now)
       /\ reviews = ret.began.reviews /\ votes = ret.began.votes
       /\ profiles = ret.began.profiles
       /\ editingReviews = ret.began.editingReviews

\* C33 witness: /foo has been answered in the middle of a posting, and the
\* posting session is still there.
C33_Witness ==
  /\ ret.op = "processUpdate" /\ ~ret.overlap /\ ret.job.update.kind = "message"
  /\ ret.job.update.text.v = "/foo" /\ ret.reply = "unknown_command"
  /\ ret.began.states[ret.job.user].present
  /\ ret.began.states[ret.job.user].state = "POSTING_REVIEW"
  /\ states[ret.job.user].present /\ states[ret.job.user].state = "POSTING_REVIEW"

(***************************************************************************)
(* Claims about withRetry                                                  *)
(***************************************************************************)
\* withRetry is over: it returned or threw
RetryDone == ret.op = "withRetry" /\ ret.pc \in {"returned", "thrown"}

\* C34: withRetry runs the operation at most maxAttempts times, never again
\* after a success or after an error the retry condition rejects, and it
\* ends, having run the operation at least once, by returning the result or
\* throwing the last error.
C34_RetryBoundedAndEnds ==
  /\ [](ret.op = "withRetry" =>
         /\ Len(ret.log) <= ret.maxAttempts
         /\ \A i \in 1..(Len(ret.log) - 1) :
              ret.log[i] # Result /\ retryCondition(ret.retryCondition, ret.log[i])
         /\ RetryDone =>
              /\ Len(ret.log) >= 1
              /\ ret.outcome = ret.log[Len(ret.log)]
              /\ (ret.pc = "returned") <=> (ret.outcome = Result))
  /\ <>RetryDone

\* C35: for every review id X and user U, handling confirm_delete_review_X
\* for U calls deleteReview with exactly (X, U) and deletes no other review.
C35_ConfirmDeleteCallsWithId ==
  \A x \in ReviewIds :
    HandledTap(<<"confirm", "delete", "review", x>>)
      => /\ handlerOf(ret.job.update.data) = "handleConfirmDeleteReviewCallback"
         /\ reviewIdAfter(ret.job.update.data, 2) = x
         /\ \A r \in ReviewIds \ {x} : reviews[r] = ret.began.reviews[r]

(***************************************************************************)
(* Claims about increments and votes in flight                            *)
(***************************************************************************)
\* C36: recordMessage calls of concurrent invocations for one user within
\* one UTC day lose no increment: once every invocation has completed a
\* recordMessage on the first day, the stored totalCount, which started
\* at 0, counts at least one message for each of them.
C36_NoIncrementLost ==
  \A u \in GateUsers :
    (/\ today = 0
     /\ \A i \in Invs : inv[i].user = u /\ inv[i].recorded
     /\ rateLimits[u].exists
     /\ rateLimits[u].totalCount >= 0)
      => rateLimits[u].totalCount >= Cardinality(Invs)

\* C37: once deleteReview for a review has completed (the review is marked
\* deleted and no deleteReview call for it is still in flight), no vote row
\* refers to that review, whatever votes were in flight meanwhile.
C37_NoVoteOnDeletedReview ==
  \A r \in ReviewIds :
    (/\ reviews[r].present
     /\ reviews[r].isDeleted
     /\ \A p \in Procs : ~(/\ inFlight(p)
                           /\ calls[p].job.kind = "deleteReview"
                           /\ calls[p].job.reviewId = r))
      => getVotesForReview(World, r) = {}

(***************************************************************************)
(* Claims about the draft of an edit                                       *)
(***************************************************************************)
\* C38: a save_review_<R> event that arrives while the user's draft was
\* seeded from a different review leaves the stored review R as it was.
C38_SaveWritesOwnDraftOnly ==
  \A r \in ReviewIds :
    (/\ HandledTap(<<"save", "review", r>>)
     /\ ret.began.editingReviews[ret.job.user].present
     /\ ret.began.editingReviews[ret.job.user].reviewId # r)
      => reviews[r] = ret.began.reviews[r]

\* C39: while a review is being edited, the token edit_review_<id> for that
\* same review (the "Back to Edit" button, the text prompt's "Cancel" button)
\* shows the edit screen again and leaves the draft, with the edits made so
\* far, as it was.
C39_BackToEditKeepsDraft ==
  \A r \in ReviewIds :
    (/\ HandledTap(<<"edit", "review", r>>)
     /\ stateOf(sessionIn(ret.began, ret.job.user)) \in {"EDITING_REVIEW", "EDITING_REVIEW_TEXT"}
     /\ ret.began.editingReviews[ret.job.user].present
     /\ ret.began.editingReviews[ret.job.user].reviewId = r)
      => editingReviews[ret.job.user] = ret.began.editingReviews[ret.job.user]

\* C40: the callback data of every button the keyboards carry matches a
\* registered route, so a tap on a rendered button is never answered with
\* the unknown-action response.
C40_RenderedTokensRouted ==
  (ret.op = "processUpdate" /\ ~ret.overlap)
    => /\ handlerOf(ret.job.update.data) # "sendUnknownCallbackMessage"
       /\ \A i \in 1..Len(ret.sent) : ret.sent[i] # "unknown_callback"


====
